---------------------------- MODULE Spec2Model ----------------------------
(***************************************************************************)
(* The PokeAPI proxy of app.py as a state machine: one action per route    *)
(* handler, the SQLite call log as the only state shared across requests.  *)
(*                                                                         *)
(* Python values are tagged records [t, v], so that values of different    *)
(* Python types can be compared.  A Python string is a sequence of atoms:  *)
(* an atom is a run of characters no operation of the program looks        *)
(* inside (a literal of the program, a resource-kind name), or a single    *)
(* character where the program does look (identifiers, digits, "/").       *)
(***************************************************************************)
EXTENDS Integers, Sequences, FiniteSets, TLC

VARIABLES
    api_calls,   \* the api_calls table of pokeapi_calls.sqlite3: [exists, rows]
    fault,       \* what went wrong inside _save_api_call during that request
    request,     \* the inbound request handled last
    upstream,    \* what the upstream did with the outbound GET of that request
    response,    \* what the handler gave back to Flask: a response or an exception
    gets,        \* outbound requests.get calls made while handling that request
    saves,       \* _save_api_call calls made while handling that request
    before,      \* history: the rows of api_calls when that request arrived
    reference,   \* what the same view gives back when the store works
    served,      \* number of requests handled so far
    pkapp_calls, \* the api_calls table as pkapp.db.logging uses it:
                 \* [exists, columns, indexes, rows]
    pkapp_hist,  \* history of the calls made on pkapp.db.logging
    call,        \* a helper function called on its own: its name and arguments
    result       \* what that call returned

\* The state of the routes of app.py.
app_vars == <<api_calls, fault, request, upstream, response, gets, saves, before,
              reference, served>>

vars == <<app_vars, pkapp_calls, pkapp_hist, call, result>>

-----------------------------------------------------------------------------
(* Bounds of the model.                                                    *)

MaxRequests == 1

\* Calls made on pkapp.db.logging.
MaxCalls == 3

-----------------------------------------------------------------------------
(* Python values.                                                          *)

PyNone == [t |-> "none"]
PyStr(s) == [t |-> "str", v |-> s]
PyInt(n) == [t |-> "int", v |-> n]
PyBool(b) == [t |-> "bool", v |-> b]
PyDict(r) == [t |-> "dict", v |-> r]
PyList(q) == [t |-> "list", v |-> q]

IsNone(x) == x.t = "none"
IsStr(x) == x.t = "str"
IsInt(x) == x.t = "int"
IsBool(x) == x.t = "bool"
IsDict(x) == x.t = "dict"
IsList(x) == x.t = "list"

\* Python truthiness (bool(x)) of a tagged value.
Truthy(x) ==
    CASE x.t = "none" -> FALSE
      [] x.t = "str"  -> x.v # <<>>
      [] x.t = "int"  -> x.v # 0
      [] x.t = "bool" -> x.v
      [] x.t = "dict" -> DOMAIN x.v # {}
      [] x.t = "list" -> x.v # <<>>

\* dict.get(key, default) on a value already known to be a dict.
Get(d, key, default) == IF key \in DOMAIN d.v THEN d.v[key] ELSE default

\* A one-atom string.
W(a) == <<a>>

\* The outcome of a computation that may raise.
NoExc == "none"
Ok(val) == [exc |-> NoExc, v |-> val]
Raise(e, m) == [exc |-> e, msg |-> m]

-----------------------------------------------------------------------------
(* Constants of app.py and main.py.                                        *)

BASE_URL == <<"https:", "/", "/", "pokeapi.co", "/", "api", "/", "v2">>

POKEAPI_BASE == BASE_URL \o <<"/", "pokemon", "/">>

SPRITE_URL ==
    <<"https:", "/", "/", "raw.githubusercontent.com", "/", "PokeAPI", "/",
      "sprites", "/", "master", "/", "sprites">>

SPRITE_EXT == <<"png">>

EndpointNames ==
    { "ability", "berry", "berry-firmness", "berry-flavor", "characteristic",
      "contest-effect", "contest-type", "egg-group", "encounter-condition",
      "encounter-condition-value", "encounter-method", "evolution-chain",
      "evolution-trigger", "gender", "generation", "growth-rate", "item",
      "item-attribute", "item-category", "item-fling-effect", "item-pocket",
      "language", "location", "location-area", "machine", "move",
      "move-ailment", "move-battle-style", "move-category",
      "move-damage-class", "move-learn-method", "move-target", "nature",
      "pal-park-area", "pokeathlon-stat", "pokedex", "pokemon",
      "pokemon-color", "pokemon-form", "pokemon-habitat", "pokemon-shape",
      "pokemon-species", "region", "stat", "super-contest-effect", "type",
      "version", "version-group" }

ENDPOINTS == { W(k) : k \in EndpointNames }

-----------------------------------------------------------------------------
(* String helpers.                                                         *)

RECURSIVE Join(_, _)
\* sep.join(parts), parts a sequence of strings.
Join(parts, sep) ==
    IF parts = <<>> THEN <<>>
    ELSE IF Len(parts) = 1 THEN parts[1]
    ELSE parts[1] \o sep \o Join(Tail(parts), sep)

DigitChars == <<"0", "1", "2", "3", "4", "5", "6", "7", "8", "9">>

RECURSIVE IntToStr(_)
\* str(n) for a natural number n.
IntToStr(n) ==
    IF n < 10 THEN <<DigitChars[n + 1]>>
    ELSE IntToStr(n \div 10) \o <<DigitChars[(n % 10) + 1]>>

\* str(x) as an f-string renders a tagged value.
Format(x) ==
    CASE x.t = "none" -> <<"None">>
      [] x.t = "str"  -> x.v
      [] x.t = "int"  -> IntToStr(x.v)
      [] x.t = "bool" -> IF x.v THEN <<"True">> ELSE <<"False">>
      [] OTHER        -> <<"<object>">>

UpperChars ==
    <<"A", "B", "C", "D", "E", "F", "G", "H", "I", "J", "K", "L", "M",
      "N", "O", "P", "Q", "R", "S", "T", "U", "V", "W", "X", "Y", "Z">>

LowerChars ==
    <<"a", "b", "c", "d", "e", "f", "g", "h", "i", "j", "k", "l", "m",
      "n", "o", "p", "q", "r", "s", "t", "u", "v", "w", "x", "y", "z">>

Whitespace == { " ", "\t", "\n", "\r", "\f" }

\* str.lower(), character by character.
LowerChar(c) ==
    IF \E k \in 1..26 : UpperChars[k] = c
    THEN LowerChars[CHOOSE k \in 1..26 : UpperChars[k] = c]
    ELSE c

Lower(s) == [k \in 1..Len(s) |-> LowerChar(s[k])]

RECURSIVE LStrip(_)
LStrip(s) ==
    IF s # <<>> /\ Head(s) \in Whitespace THEN LStrip(Tail(s)) ELSE s

RECURSIVE RStrip(_)
RStrip(s) ==
    IF s # <<>> /\ s[Len(s)] \in Whitespace
    THEN RStrip(SubSeq(s, 1, Len(s) - 1)) ELSE s

\* str.strip().
Strip(s) == RStrip(LStrip(s))

\* The value of a digit character, -1 for any other atom.
DigitValue(c) ==
    IF \E k \in 1..10 : DigitChars[k] = c
    THEN (CHOOSE k \in 1..10 : DigitChars[k] = c) - 1
    ELSE -1

IsDigits(s) == s # <<>> /\ \A k \in 1..Len(s) : DigitValue(s[k]) >= 0

RECURSIVE StrToInt(_)
\* int(s) for a string of digits.
StrToInt(s) ==
    IF s = <<>> THEN 0
    ELSE 10 * StrToInt(SubSeq(s, 1, Len(s) - 1)) + DigitValue(s[Len(s)])

\* Whether pat occurs in s at position k.
OccursAt(s, pat, k) ==
    k + Len(pat) - 1 <= Len(s) /\ SubSeq(s, k, k + Len(pat) - 1) = pat

\* s.split(pat)[-1]: what follows the last occurrence of pat, s when none.
AfterLast(s, pat) ==
    LET at == { k \in 1..Len(s) : OccursAt(s, pat, k) }
    IN  IF at = {} THEN s
        ELSE LET last == CHOOSE k \in at : \A j \in at : j <= k
             IN  SubSeq(s, last + Len(pat), Len(s))

RECURSIVE SplitOn(_, _)
\* s.split(c) for a one-character separator c: the sequence of the pieces.
SplitOn(s, c) ==
    IF \A k \in 1..Len(s) : s[k] # c THEN <<s>>
    ELSE LET first == CHOOSE k \in 1..Len(s) :
                          s[k] = c /\ \A j \in 1..(k - 1) : s[j] # c
         IN  <<SubSeq(s, 1, first - 1)>> \o SplitOn(SubSeq(s, first + 1, Len(s)), c)

\* [x for x in q if x]: the non-empty strings of a sequence of strings.
RECURSIVE NonEmpty(_)
NonEmpty(q) ==
    IF q = <<>> THEN <<>>
    ELSE (IF Head(q) # <<>> THEN <<Head(q)>> ELSE <<>>) \o NonEmpty(Tail(q))

-----------------------------------------------------------------------------
(* URL construction.                                                       *)

\* A validate_endpoint without its allow-list test: every kind passes.
validate_endpoint_any_kind(endpoint, resource_id) == Ok(PyNone)

\* validate_endpoint: raises ValueError for a kind outside ENDPOINTS.  The
\* resource_id test cannot fail: routes pass None or a str.
validate_endpoint(endpoint, resource_id) ==
    IF endpoint \notin ENDPOINTS
    THEN Raise("ValueError", <<"Unknown API endpoint '">> \o endpoint \o <<"'">>)
    ELSE IF ~IsNone(resource_id) /\ ~(IsInt(resource_id) \/ IsStr(resource_id))
    THEN Raise("ValueError", <<"Bad resource_id '">> \o Format(resource_id) \o <<"'">>)
    ELSE Ok(PyNone)

\* api_url_build(endpoint, resource_id, subresource).
api_url_build(endpoint, resource_id, subresource) ==
    LET chk == validate_endpoint(endpoint, resource_id)
        parts == <<BASE_URL, endpoint>>
                 \o (IF ~IsNone(resource_id) THEN <<Format(resource_id)>> ELSE <<>>)
                 \o (IF ~IsNone(subresource) THEN <<Format(subresource)>> ELSE <<>>)
    IN  IF chk.exc # NoExc THEN chk
        ELSE Ok(Join(parts, <<"/">>)
                \o (IF Truthy(resource_id) \/ Truthy(subresource)
                    THEN <<"/">> ELSE <<>>))

-----------------------------------------------------------------------------
(* Sprite URLs.                                                            *)

\* kwargs.get(name, False).
KwGet(kwargs, name) == IF name \in DOMAIN kwargs THEN kwargs[name] ELSE FALSE

\* A parse_sprite_options without priorities: every flag that is set gives
\* its segment.
parse_sprite_options_unranked(sprite_type, kwargs) ==
    LET If(flag, seg) == IF KwGet(kwargs, flag) THEN <<seg>> ELSE <<>>
    IN  IF sprite_type = <<"pokemon">>
        THEN If("model", <<"model">>) \o If("other", <<"other">>)
             \o If("official_artwork", <<"official-artwork">>)
             \o If("dream_world", <<"dream-world">>)
             \o If("back", <<"back">>) \o If("shiny", <<"shiny">>)
             \o If("female", <<"female">>)
        ELSE IF sprite_type = <<"items">>
        THEN If("berries", <<"berries">>) \o If("dream_world", <<"dream-world">>)
             \o If("gen3", <<"gen3">>) \o If("gen5", <<"gen5">>)
             \o If("underground", <<"underground">>)
        ELSE <<>>

\* parse_sprite_options(sprite_type, **kwargs): the path segments.
parse_sprite_options(sprite_type, kwargs) ==
    LET If(flag, seg) == IF KwGet(kwargs, flag) THEN <<seg>> ELSE <<>>
    IN  IF sprite_type = <<"pokemon">>
        THEN IF KwGet(kwargs, "model") THEN << <<"model">> >>
             ELSE IF KwGet(kwargs, "other")
             THEN << <<"other">> >> \o If("official_artwork", <<"official-artwork">>)
                  \o If("dream_world", <<"dream-world">>)
             ELSE If("back", <<"back">>) \o If("shiny", <<"shiny">>)
                  \o If("female", <<"female">>)
        ELSE IF sprite_type = <<"items">>
        THEN IF KwGet(kwargs, "berries") THEN << <<"berries">> >>
             ELSE IF KwGet(kwargs, "dream_world") THEN << <<"dream-world">> >>
             ELSE IF KwGet(kwargs, "gen3") THEN << <<"gen3">> >>
             ELSE IF KwGet(kwargs, "gen5") THEN << <<"gen5">> >>
             ELSE IF KwGet(kwargs, "underground") THEN << <<"underground">> >>
             ELSE <<>>
        ELSE <<>>

\* sprite_url_build(sprite_type, sprite_id, **kwargs); sprite_id is any
\* value, formatted into the file name.
sprite_url_build(sprite_type, sprite_id, kwargs) ==
    LET options == parse_sprite_options(sprite_type, kwargs)
        filename == Format(sprite_id) \o <<".">> \o SPRITE_EXT
    IN  Join(<<SPRITE_URL, sprite_type>> \o options \o <<filename>>, <<"/">>)

\* A sprite_filepath_build that resolves no segments.
sprite_filepath_build_plain(sprite_type, sprite_id, kwargs) ==
    Join(<<sprite_type, Format(sprite_id) \o <<".">> \o SPRITE_EXT>>, <<"/">>)

\* sprite_filepath_build: the same segments joined by os.path.join.
sprite_filepath_build(sprite_type, sprite_id, kwargs) ==
    LET options == parse_sprite_options(sprite_type, kwargs)
        filename == Format(sprite_id) \o <<".">> \o SPRITE_EXT
    IN  Join(<<sprite_type>> \o options \o <<filename>>, <<"/">>)

RECURSIVE TrailingDigits(_)
\* The longest run of digits a string ends with.
TrailingDigits(s) ==
    IF s # <<>> /\ DigitValue(s[Len(s)]) >= 0
    THEN TrailingDigits(SubSeq(s, 1, Len(s) - 1)) \o <<s[Len(s)]>>
    ELSE <<>>

\* _extract_id_from_url(url): re.search(r"/(\d+)/?$", url), None for a value
\* that is no str and for a string that does not end that way.
_extract_id_from_url(url) ==
    IF ~IsStr(url) THEN PyNone
    ELSE LET u == url.v
             t == IF u # <<>> /\ u[Len(u)] = "/" THEN SubSeq(u, 1, Len(u) - 1) ELSE u
             d == TrailingDigits(t)
         IN  IF d # <<>> /\ Len(t) > Len(d) /\ t[Len(t) - Len(d)] = "/"
             THEN PyInt(StrToInt(d))
             ELSE PyNone

-----------------------------------------------------------------------------
(* main.summarize_pokemon.                                                 *)

\* summarize_pokemon(data) for a dict data.  The sections on species,
\* encounters, types, abilities, stats, sprites, held items, forms, cries and
\* past types are those of a payload that carries none of these keys, as no
\* body of this model does: "Types: n/a", "Abilities: n/a", "Base stats:".
summarize_pokemon(data) ==
    LET opt(key, label) ==
            IF ~IsNone(Get(data, key, PyNone))
            THEN << <<label>> \o Format(Get(data, key, PyNone)) >> ELSE <<>>
        lines ==
            << <<"Name: ">> \o Format(Get(data, "name", PyStr(<<"unknown">>))),
               <<"ID: ">> \o Format(Get(data, "id", PyStr(<<"?">>))),
               <<"Height: ">> \o Format(Get(data, "height", PyStr(<<"?">>))),
               <<"Weight: ">> \o Format(Get(data, "weight", PyStr(<<"?">>))) >>
            \o opt("base_experience", "Base experience: ")
            \o opt("order", "Order: ")
            \o opt("is_default", "Is default: ")
            \o << <<"Types: n/a">>, <<"Abilities: n/a">>, <<"Base stats:">> >>
    IN  Join(lines, <<"\n">>)

-----------------------------------------------------------------------------
(* Reshapers: flavor text, evolution chains.                               *)

EmptyDict == PyDict([k \in {} |-> PyNone])

AttributeError == Raise("AttributeError", <<"object has no attribute 'get'">>)

TypeError == Raise("TypeError", <<"object is not iterable">>)

\* x.get(key) / x.get(key, default): AttributeError unless x is a dict.
DictGet(x, key, default) ==
    IF IsDict(x) THEN Ok(Get(x, key, default)) ELSE AttributeError

\* (x or {}).
OrEmptyDict(x) == IF Truthy(x) THEN x ELSE EmptyDict

\* (x or []).
OrEmptyList(x) == IF Truthy(x) THEN x ELSE PyList(<<>>)

RECURSIVE FirstRaise(_)
\* The first exception among a sequence of outcomes, in order; Ok when none.
FirstRaise(outs) ==
    IF outs = <<>> THEN Ok(PyNone)
    ELSE IF Head(outs).exc # NoExc THEN Head(outs)
    ELSE FirstRaise(Tail(outs))

RECURSIVE Concat(_)
\* The values of a sequence of Ok outcomes, each a sequence, concatenated.
Concat(outs) == IF outs = <<>> THEN <<>> ELSE Head(outs).v \o Concat(Tail(outs))

\* str.replace(old, new) for a one-character old.
Replace(s, old, new) == [k \in 1..Len(s) |-> IF s[k] = old THEN new ELSE s[k]]

RECURSIVE EnglishEntries(_)
\* [e for e in entries if e.get("language", {}).get("name") == "en"], over
\* the sequence of entries: the first entry that raises ends it.
EnglishEntries(entries) ==
    IF entries = <<>> THEN Ok(<<>>)
    ELSE LET e == Head(entries)
             lang == DictGet(e, "language", EmptyDict)
             name == DictGet(lang.v, "name", PyNone)
             rest == EnglishEntries(Tail(entries))
         IN  IF lang.exc # NoExc THEN lang
             ELSE IF name.exc # NoExc THEN name
             ELSE IF rest.exc # NoExc THEN rest
             ELSE Ok((IF name.v = PyStr(<<"en">>) THEN <<e>> ELSE <<>>) \o rest.v)

\* A flavor text taken from the first English entry in place of the last.
_get_first_english_flavor_text(entries) ==
    IF ~IsList(entries) THEN TypeError
    ELSE LET en == EnglishEntries(entries.v)
         IN  IF en.exc # NoExc THEN en
             ELSE IF en.v = <<>> THEN Ok(PyStr(<<>>))
             ELSE LET text == Get(en.v[1], "flavor_text", PyStr(<<>>))
                  IN  IF ~IsStr(text) THEN AttributeError
                      ELSE Ok(PyStr(Replace(Replace(text.v, "\n", " "), "\f", " ")))

\* _get_latest_english_flavor_text(entries).
_get_latest_english_flavor_text(entries) ==
    IF ~IsList(entries) THEN TypeError
    ELSE LET en == EnglishEntries(entries.v)
         IN  IF en.exc # NoExc THEN en
             ELSE IF en.v = <<>> THEN Ok(PyStr(<<>>))
             ELSE LET text == Get(en.v[Len(en.v)], "flavor_text", PyStr(<<>>))
                  IN  IF ~IsStr(text) THEN AttributeError
                      ELSE Ok(PyStr(Replace(Replace(text.v, "\n", " "), "\f", " ")))

\* One test of _summarize_evolution_conditions_py, each giving the chips it
\* appends (at most one) or the exception it raises.
\*   if d.get(key) is not None: chips.append(f"{label}{d.get(key)}")
ChipIfNotNone(d, key, label) ==
    LET x == Get(d, key, PyNone)
    IN  Ok(IF ~IsNone(x) THEN <<PyStr(<<label>> \o Format(x))>> ELSE <<>>)

\*   if d.get(key, {}).get("name"): chips.append(f"{label}{d[key]['name']}")
ChipOfDefault(d, key, label) ==
    LET name == DictGet(Get(d, key, EmptyDict), "name", PyNone)
    IN  IF name.exc # NoExc THEN name
        ELSE Ok(IF Truthy(name.v) THEN <<PyStr(<<label>> \o Format(name.v))>> ELSE <<>>)

\*   if (d.get(key) or {}).get("name"): chips.append(f"{label}{d[key]['name']}")
ChipOfOr(d, key, label) ==
    LET name == DictGet(OrEmptyDict(Get(d, key, PyNone)), "name", PyNone)
    IN  IF name.exc # NoExc THEN name
        ELSE Ok(IF Truthy(name.v) THEN <<PyStr(<<label>> \o Format(name.v))>> ELSE <<>>)

\*   if d.get(key): chips.append(text)
ChipIfTruthy(d, key, text) ==
    Ok(IF Truthy(Get(d, key, PyNone)) THEN <<text>> ELSE <<>>)

\* "level-up" in trig.
HasLevelUp(trig) == \E k \in 1..Len(trig) : trig[k] = "level-up"

\* _summarize_evolution_conditions_py(details): the chips of details[0].
_summarize_evolution_conditions_py(details) ==
    IF ~IsList(details) \/ details.v = <<>> THEN Ok(<<PyStr(<<"level up">>)>>)
    ELSE IF ~IsDict(details.v[1]) THEN AttributeError
    ELSE
    LET d == details.v[1]
        trig == DictGet(OrEmptyDict(Get(d, "trigger", PyNone)), "name", PyNone)
        tests ==
            << ChipIfNotNone(d, "min_level", "Lv "),
               ChipOfDefault(d, "item", "item: "),
               ChipOfDefault(d, "held_item", "holds: "),
               IF trig.exc # NoExc THEN trig
               ELSE Ok(IF Truthy(trig.v) /\ IsStr(trig.v) /\ ~HasLevelUp(trig.v.v)
                       THEN <<trig.v>> ELSE <<>>),
               ChipIfTruthy(d, "time_of_day", Get(d, "time_of_day", PyNone)),
               ChipIfNotNone(d, "min_happiness", "happiness >= "),
               ChipIfNotNone(d, "min_beauty", "beauty >= "),
               ChipIfNotNone(d, "min_affection", "affection >= "),
               ChipOfOr(d, "known_move", "knows: "),
               ChipOfOr(d, "known_move_type", "move type: "),
               ChipOfOr(d, "location", "at: "),
               ChipIfTruthy(d, "needs_overworld_rain", PyStr(<<"raining">>)),
               ChipOfOr(d, "party_species", "party: "),
               ChipOfOr(d, "party_type", "party type: "),
               ChipIfNotNone(d, "relative_physical_stats", "phys.stats: "),
               ChipOfOr(d, "trade_species", "trade for: "),
               ChipIfTruthy(d, "turn_upside_down",
                            PyStr(<<"hold console upside-down">>)) >>
        failed == FirstRaise(tests)
        chips == Concat(tests)
    IN  IF failed.exc # NoExc THEN failed
        ELSE IF chips = <<>>
        THEN Ok(<<IF Truthy(trig.v) THEN trig.v ELSE PyStr(<<"evolves">>)>>)
        ELSE Ok(chips)

RECURSIVE _build_evo_paths(_, _, _)
RECURSIVE EvoChildren(_, _, _)

\* The loop of _build_evo_paths over evolves_to: the paths of every child,
\* in order; the first exception ends it.
EvoChildren(evolves_to, steps_next, acc_links) ==
    IF evolves_to = <<>> THEN Ok(<<>>)
    ELSE LET ev == Head(evolves_to)
             details == DictGet(ev, "evolution_details", PyNone)
             conds == _summarize_evolution_conditions_py(OrEmptyList(details.v))
             links_next == Append(acc_links, PyDict([conditions |-> PyList(conds.v)]))
             sub == _build_evo_paths(ev, steps_next, links_next)
             rest == EvoChildren(Tail(evolves_to), steps_next, acc_links)
         IN  IF details.exc # NoExc THEN details
             ELSE IF conds.exc # NoExc THEN conds
             ELSE IF sub.exc # NoExc THEN sub
             ELSE IF rest.exc # NoExc THEN rest
             ELSE Ok(sub.v \o rest.v)

\* _build_evo_paths(node, acc_steps, acc_links): one path per leaf below
\* node, each a dict {steps, links}.
_build_evo_paths(node, acc_steps, acc_links) ==
    IF ~IsDict(node) THEN AttributeError
    ELSE
    LET sp == OrEmptyDict(Get(node, "species", PyNone))
        name == DictGet(sp, "name", PyNone)
        sid == _extract_id_from_url(Get(sp, "url", PyNone))
        sprite == IF Truthy(sid)
                  THEN PyStr(sprite_url_build(<<"pokemon">>, sid, [k \in {} |-> FALSE]))
                  ELSE PyStr(<<>>)
        step == PyDict([key |-> PyStr(Format(name.v) \o <<"-">>
                                      \o (IF ~IsNone(sid) THEN Format(sid) ELSE <<"x">>)),
                        name |-> name.v, id |-> sid, sprite |-> sprite])
        steps_next == Append(acc_steps, step)
        evolves_to == OrEmptyList(Get(node, "evolves_to", PyNone))
    IN  IF name.exc # NoExc THEN name
        ELSE IF ~Truthy(evolves_to)
        THEN Ok(<<PyDict([steps |-> PyList(steps_next), links |-> PyList(acc_links)])>>)
        ELSE IF ~IsList(evolves_to) THEN AttributeError
        ELSE EvoChildren(evolves_to.v, steps_next, acc_links)

-----------------------------------------------------------------------------
(* The upstream: requests.get and Response.                                *)

\* What "except requests.ConnectionError" would catch in place of
\* "except requests.RequestException": a timeout is not among them.
ConnectionErrorsOnly == {"ConnectionError"}

\* Exceptions of requests that derive from requests.RequestException.
RequestExceptions == {"ConnectionError", "Timeout", "HTTPError"}

\* str(e) of a transport failure.
TransportMessage(e) ==
    IF e = "Timeout" THEN <<"Read timed out.">> ELSE <<"Connection refused">>

\* The bodies the upstream answers with in this model.  Those that are JSON,
\* with the value Response.json() gives for each:
PokemonBody ==
    PyDict([id |-> PyInt(25), name |-> PyStr(<<"p", "i", "k", "a">>),
            height |-> PyInt(4), weight |-> PyInt(60)])

PageBody ==
    PyDict([count |-> PyInt(2),
            results |-> PyList(<<
                PyDict([name |-> PyStr(<<"g", "e", "n", "-", "i", "i">>),
                        url |-> PyStr(BASE_URL \o <<"/", "generation", "/", "2", "/">>)]),
                PyDict([name |-> PyStr(<<"g", "e", "n", "-", "i">>),
                        url |-> PyStr(BASE_URL \o <<"/", "generation", "/", "1", "/">>)])
            >>)])

GenerationBody ==
    PyDict([id |-> PyInt(1), name |-> PyStr(<<"g", "e", "n", "-", "i">>),
            pokemon_species |-> PyList(<<
                PyDict([name |-> PyStr(<<"m", "e", "w">>),
                        url |-> PyStr(BASE_URL \o <<"/", "pokemon-species", "/",
                                                     "1", "5", "1", "/">>)]),
                PyDict([name |-> PyStr(<<"a", "b", "r", "a">>),
                        url |-> PyStr(BASE_URL \o <<"/", "pokemon-species", "/",
                                                     "6", "3", "/">>)])
            >>)])

SpeciesBody ==
    PyDict([id |-> PyInt(25), name |-> PyStr(<<"p", "i", "k", "a">>),
            capture_rate |-> PyInt(190), is_baby |-> PyBool(FALSE),
            flavor_text_entries |-> PyList(<<
                PyDict([flavor_text |-> PyStr(<<"I", "t", "\n", "n", "a", "p", "s", ".">>),
                        language |-> PyDict([name |-> PyStr(<<"en">>)])]),
                PyDict([flavor_text |-> PyStr(<<"I", "t", "\f", "z", "a", "p", "s", ".">>),
                        language |-> PyDict([name |-> PyStr(<<"en">>)])]),
                PyDict([flavor_text |-> PyStr(<<"I", "l", "\n", "d", "o", "r", "t", ".">>),
                        language |-> PyDict([name |-> PyStr(<<"fr">>)])])
            >>)])

\* abra -> kadabra, the evolution detail carrying only the keys that are set.
ChainNode(name, digits, evolves_to, details) ==
    PyDict([species |-> PyDict([name |-> PyStr(name),
                                url |-> PyStr(BASE_URL \o <<"/", "pokemon-species", "/">>
                                              \o digits \o <<"/">>)]),
            evolves_to |-> PyList(evolves_to),
            evolution_details |-> PyList(details)])

SparseDetail ==
    PyDict([min_level |-> PyInt(16),
            trigger |-> PyDict([name |-> PyStr(<<"level-up">>)])])

\* The same detail as the upstream writes it: every key, null when unset.
FullDetail ==
    PyDict([gender |-> PyNone, held_item |-> PyNone, item |-> PyNone,
            known_move |-> PyNone, known_move_type |-> PyNone, location |-> PyNone,
            min_affection |-> PyNone, min_beauty |-> PyNone, min_happiness |-> PyNone,
            min_level |-> PyInt(16), needs_overworld_rain |-> PyBool(FALSE),
            party_species |-> PyNone, party_type |-> PyNone,
            relative_physical_stats |-> PyNone, time_of_day |-> PyStr(<<>>),
            trade_species |-> PyNone,
            trigger |-> PyDict([name |-> PyStr(<<"level-up">>)]),
            turn_upside_down |-> PyBool(FALSE)])

ChainBody(detail) ==
    PyDict([id |-> PyInt(10),
            chain |-> ChainNode(<<"a", "b", "r", "a">>, <<"6", "3">>,
                         << ChainNode(<<"k", "a", "d", "a", "b", "r", "a">>,
                                      <<"6", "4">>, <<>>, <<detail>>) >>,
                         <<>>)])

EncountersBody ==
    PyList(<<
        PyDict([location_area |-> PyDict([name |-> PyStr(<<"area-1">>)]),
                version_details |-> PyList(<<
                    PyDict([version |-> PyDict([name |-> PyStr(<<"red">>)]),
                            max_chance |-> PyInt(10),
                            encounter_details |-> PyList(<<
                                PyDict([method |-> PyDict([name |-> PyStr(<<"walk">>)])]),
                                PyDict([method |-> PyDict([name |-> PyStr(<<"surf">>)])]),
                                PyDict([method |-> PyDict([name |-> PyStr(<<"walk">>)])])
                            >>)])
                >>)])
    >>)

JsonOf(text) ==
    CASE text = <<"{pokemon 25}">> -> PokemonBody
      [] text = <<"{page}">> -> PageBody
      [] text = <<"{generation 1}">> -> GenerationBody
      [] text = <<"{species 25}">> -> SpeciesBody
      [] text = <<"{chain 10}">> -> ChainBody(SparseDetail)
      [] text = <<"{chain 10, nulls}">> -> ChainBody(FullDetail)
      [] text = <<"[encounters 25]">> -> EncountersBody
      [] text = <<"[]">> -> PyList(<<>>)

JsonTexts ==
    { <<"{pokemon 25}">>, <<"{page}">>, <<"{generation 1}">>, <<"{species 25}">>,
      <<"{chain 10}">>, <<"{chain 10, nulls}">>, <<"[encounters 25]">>, <<"[]">> }

\* A requests.get behind a retrying adapter: a failed GET is sent once more.
requests_get_retrying(url, net) ==
    IF net.t = "error"
    THEN [exc |-> net.exc, msg |-> <<"Max retries exceeded">>, n |-> 2]
    ELSE [exc |-> NoExc, r |-> [url |-> url, status_code |-> net.status_code,
                                text |-> net.text], n |-> 1]

\* requests.get(url, timeout): the response, or the transport failure raised.
\* n is the number of GETs sent.
requests_get(url, net) ==
    IF net.t = "error"
    THEN [exc |-> net.exc, msg |-> TransportMessage(net.exc), n |-> 1]
    ELSE [exc |-> NoExc, r |-> [url |-> url, status_code |-> net.status_code,
                                text |-> net.text], n |-> 1]

\* Response.json(): raises on a body that is not JSON.
r_json(r) ==
    IF r.text \in JsonTexts THEN Ok(JsonOf(r.text))
    ELSE Raise("JSONDecodeError", <<"Expecting value">>)

\* A classification that trusts the body only of a 2xx answer and wraps the
\* text of every other one.
json_or_error_by_status(r) ==
    IF r.status_code < 300 /\ r.text \in JsonTexts THEN Ok(JsonOf(r.text))
    ELSE Ok(PyDict([error |-> PyStr(r.text)]))

\* A classification without the except clause: r.json() raises through.
json_unguarded(r) == r_json(r)

\* The statement that classifies a response,
\*   try: payload = r.json()
\*   except Exception: payload = {"error": r.text}
\* as an outcome that never raises.
json_or_error(r) ==
    LET j == r_json(r)
    IN  IF j.exc = NoExc THEN j ELSE Ok(PyDict([error |-> PyStr(r.text)]))

\* Response.raise_for_status(): HTTPError for 4xx and 5xx.
raise_for_status(r) ==
    IF r.status_code >= 400 /\ r.status_code < 600
    THEN Raise("HTTPError", IntToStr(r.status_code) \o <<" Error for url: ">> \o r.url)
    ELSE Ok(PyNone)

-----------------------------------------------------------------------------
(* The call log.                                                           *)

\* _now_iso(): the clock, formatted.
_now_iso(clock) == <<"T">> \o IntToStr(clock) \o <<"Z">>

\* json.dumps(payload): the text of the payload.
json_dumps(payload) == PyStr(<<"json:", payload>>)

\* The body of the try block of _save_api_call: serialise (None when that
\* fails), connect, insert.  db is [exists, rows]; the row's id is the
\* autoincrement key.  duration_ms, a wall-clock float, is left out.
save_api_call_try(db, flt, ts_utc, endpoint, identifier, url, status, payload) ==
    LET payload_text == IF flt = "dumps" THEN PyNone ELSE json_dumps(payload)
        row == [id |-> Len(db.rows) + 1, ts_utc |-> ts_utc, endpoint |-> endpoint,
                identifier |-> identifier, url |-> url, status |-> status,
                payload_json |-> payload_text]
    IN  IF flt = "connect"
        THEN Raise("OperationalError", <<"unable to open database file">>)
        ELSE IF ~db.exists
        THEN Raise("OperationalError", <<"no such table: api_calls">>)
        ELSE Ok([db EXCEPT !.rows = Append(@, row)])

\* A _save_api_call without the except clause: what the try block raises
\* reaches the caller.
_save_api_call_unguarded(db, flt, ts_utc, endpoint, identifier, url, status, payload) ==
    LET t == save_api_call_try(db, flt, ts_utc, endpoint, identifier, url, status, payload)
    IN  IF t.exc = NoExc THEN [exc |-> NoExc, v |-> t.v, n |-> 1]
        ELSE [exc |-> t.exc, msg |-> t.msg, v |-> db, n |-> 1]

\* _save_api_call: the try block, every Exception swallowed.  n counts the
\* call.
_save_api_call(db, flt, ts_utc, endpoint, identifier, url, status, payload) ==
    LET t == save_api_call_try(db, flt, ts_utc, endpoint, identifier, url, status, payload)
    IN  IF t.exc = NoExc THEN [exc |-> NoExc, v |-> t.v, n |-> 1]
        ELSE [exc |-> NoExc, v |-> db, n |-> 1]

\* _db_init(): CREATE TABLE IF NOT EXISTS api_calls and its two indexes, every
\* Exception swallowed.  The rows of a table that is there stay.
_db_init(db, flt) ==
    IF flt = "connect" THEN db ELSE [db EXCEPT !.exists = TRUE]

-----------------------------------------------------------------------------
(* pkapp.db.logging: the call log of the modularised application.          *)

\* The columns of CREATE TABLE in app.py's _db_init.
AppColumns ==
    {"id", "ts_utc", "endpoint", "identifier", "url", "status", "duration_ms",
     "payload_json"}

\* The columns of CREATE TABLE in pkapp's db_init.
PkappColumns ==
    {"id", "ts_utc", "identifier", "url", "status", "duration_ms", "payload_json"}

\* The columns the INSERT of save_api_call names.
InsertColumns ==
    {"ts_utc", "endpoint", "identifier", "url", "status", "duration_ms",
     "payload_json"}

\* CREATE INDEX IF NOT EXISTS name ON api_calls(column): raises when the
\* table has no such column.
create_index(db, name, column) ==
    IF column \in db.columns
    THEN Ok([db EXCEPT !.indexes = @ \cup {name}])
    ELSE Raise("OperationalError", <<"no such column: ", column>>)

\* db_init(): CREATE TABLE IF NOT EXISTS, then the two indexes, each
\* statement taking effect as it runs (sqlite3 opens no transaction for
\* DDL); the first Exception ends the block and is swallowed.
db_init(db, flt) ==
    LET created == IF db.exists THEN db
                   ELSE [exists |-> TRUE, columns |-> PkappColumns,
                         indexes |-> {}, rows |-> <<>>]
        by_ts == create_index(created, "idx_api_calls_ts", "ts_utc")
        by_endpoint == create_index(by_ts.v, "idx_api_calls_endpoint", "endpoint")
    IN  IF flt = "connect" THEN db
        ELSE IF by_ts.exc # NoExc THEN created
        ELSE IF by_endpoint.exc # NoExc THEN by_ts.v
        ELSE by_endpoint.v

\* save_api_call: nothing unless endpoint == "pokemon"; then the try block
\* of _save_api_call, on a table that may lack a column the INSERT names;
\* every Exception swallowed.
save_api_call(db, flt, ts_utc, endpoint, identifier, url, status, payload) ==
    LET payload_text == IF flt = "dumps" THEN PyNone ELSE json_dumps(payload)
        row == [id |-> Len(db.rows) + 1, ts_utc |-> ts_utc, endpoint |-> endpoint,
                identifier |-> identifier, url |-> url, status |-> status,
                payload_json |-> payload_text]
    IN  IF endpoint # PyStr(<<"pokemon">>) THEN db
        ELSE IF flt = "connect" THEN db
        ELSE IF ~db.exists THEN db
        ELSE IF ~(InsertColumns \subseteq db.columns) THEN db
        ELSE [db EXCEPT !.rows = Append(@, row)]

-----------------------------------------------------------------------------
(* pkapp.blueprints.proxy_factory.                                         *)

\* make_view(endpoint_key, has_identifier): the closure.
make_view(endpoint_key, has_identifier) ==
    [endpoint_key |-> endpoint_key, has_identifier |-> has_identifier]

\* view(identifier) of a closure: proxy_func is called with (endpoint_key,
\* identifier) and what it returns is handed back.
view(closure, identifier, proxy_func) ==
    LET returned == proxy_func[<<closure.endpoint_key, identifier>>]
    IN  [t |-> "response", payload |-> returned[1], status |-> returned[2],
         proxy_calls |-> << <<closure.endpoint_key, identifier>> >>]

\* create_proxy_blueprint(name, url_prefix, rules, proxy_func): the rules
\* added to the blueprint, in order; a rule is <<rule, endpoint_key,
\* has_identifier>>.
create_proxy_blueprint(name, rules) ==
    [t |-> "blueprint", name |-> name,
     url_rules |->
        [i \in 1..Len(rules) |->
            [rule |-> IF rules[i][3] THEN rules[i][1] \o <<"/", "<identifier>">>
                      ELSE rules[i][1],
             endpoint |-> Replace(name \o <<"_">> \o rules[i][2], "-", "_"),
             view_func |-> make_view(rules[i][2], rules[i][3])]]]

\* Flask's app.register_blueprint(bp): the deferred add_url_rule calls run;
\* an endpoint name that already has a view function of its own raises
\* AssertionError (every make_view call gives a new function).
register_blueprint(bp) ==
    IF \E i, j \in 1..Len(bp.url_rules) :
           i < j /\ bp.url_rules[i].endpoint = bp.url_rules[j].endpoint
    THEN Raise("AssertionError",
               <<"View function mapping is overwriting an existing endpoint function">>)
    ELSE Ok([t |-> "app", url_map |-> bp.url_rules])

-----------------------------------------------------------------------------
(* What a handler, or a helper that talks to the upstream, hands back.     *)

\* A (payload, status) result; db is the log afterwards, g and s count the
\* GETs and the _save_api_call calls made.
Returned(payload, status, db, g, s) ==
    [exc |-> NoExc, payload |-> payload, status |-> status, db |-> db, gets |-> g,
     saves |-> s]

\* An exception that leaves the function.
Escaped(e, msg, db, g, s) ==
    [exc |-> e, msg |-> msg, payload |-> PyNone, status |-> 0, db |-> db,
     gets |-> g, saves |-> s]

\* _proxy_endpoint(endpoint, identifier): validate, build the URL, GET,
\* classify, log, return; ValueError gives 400, RequestException 500.
_proxy_endpoint(db, flt, clock, net, endpoint, identifier) ==
    LET Handle(e, msg, d, ng, ns) ==
            IF e \in {"ValueError", "JSONDecodeError"}
            THEN Returned(PyDict([error |-> PyStr(msg)]), 400, d, ng, ns)
            ELSE IF e \in RequestExceptions
            THEN Returned(PyDict([error |-> PyStr(msg)]), 500, d, ng, ns)
            ELSE Escaped(e, msg, d, ng, ns)
        \* return payload, r.status_code
        Logged(g, payload, sv) ==
            IF sv.exc # NoExc THEN Handle(sv.exc, sv.msg, db, g.n, sv.n)
            ELSE Returned(payload.v, g.r.status_code, sv.v, g.n, sv.n)
        \* _save_api_call(_now_iso(), endpoint, str(identifier) ..., payload)
        Classified(url, g, payload) ==
            IF payload.exc # NoExc THEN Handle(payload.exc, payload.msg, db, g.n, 0)
            ELSE Logged(g, payload,
                        _save_api_call(db, flt, _now_iso(clock), PyStr(endpoint),
                                       IF IsNone(identifier) THEN PyNone
                                       ELSE PyStr(Format(identifier)),
                                       url, g.r.status_code, payload.v))
        \* try: payload = r.json() / except Exception: payload = {"error": r.text}
        Got(url, g) ==
            IF g.exc # NoExc THEN Handle(g.exc, g.msg, db, g.n, 0)
            ELSE Classified(url, g, json_or_error(g.r))
        \* r = requests.get(url, timeout=10.0)
        Built(u) ==
            IF u.exc # NoExc THEN Handle(u.exc, u.msg, db, 0, 0)
            ELSE Got(u.v, requests_get(u.v, net))
        \* url = api_url_build(endpoint, identifier)
        Checked(chk) ==
            IF chk.exc # NoExc THEN Handle(chk.exc, chk.msg, db, 0, 0)
            ELSE Built(api_url_build(endpoint, identifier, PyNone))
    \* validate_endpoint(endpoint, identifier)
    IN  Checked(validate_endpoint(endpoint, identifier))

\* _split_endpoint_from_url(url): (endpoint, identifier) read back from the
\* path behind "/api/v2/".
_split_endpoint_from_url(url) ==
    LET rest == AfterLast(url, <<"/", "api", "/", "v2", "/">>)
        parts == NonEmpty(SplitOn(rest, "/"))
    IN  IF parts = <<>> THEN [endpoint |-> PyNone, identifier |-> PyNone]
        ELSE [endpoint |-> PyStr(parts[1]),
              identifier |-> IF Len(parts) > 1 THEN PyStr(parts[2]) ELSE PyNone]

\* _http_get_json(url): GET, classify, log, raise_for_status, return the
\* payload.  Nothing is caught: a transport failure and an HTTPError leave
\* the function.  The status of the result is not part of what it returns.
_http_get_json(db, flt, clock, net, url) ==
    LET \* r.raise_for_status() / return payload
        Logged(g, payload, sv, rs) ==
            IF sv.exc # NoExc THEN Escaped(sv.exc, sv.msg, db, g.n, sv.n)
            ELSE IF rs.exc # NoExc THEN Escaped(rs.exc, rs.msg, sv.v, g.n, sv.n)
            ELSE Returned(payload.v, 0, sv.v, g.n, sv.n)
        \* endpoint, identifier = _split_endpoint_from_url(url) / _save_api_call(...)
        Split(g, payload, sp) ==
            Logged(g, payload,
                   _save_api_call(db, flt, _now_iso(clock), sp.endpoint, sp.identifier,
                                  url, g.r.status_code, payload.v),
                   raise_for_status(g.r))
        Classified(g, payload) ==
            IF payload.exc # NoExc THEN Escaped(payload.exc, payload.msg, db, g.n, 0)
            ELSE Split(g, payload, _split_endpoint_from_url(url))
        \* try: payload = r.json() / except Exception: payload = {"error": r.text}
        Got(g) ==
            IF g.exc # NoExc THEN Escaped(g.exc, g.msg, db, g.n, 0)
            ELSE Classified(g, json_or_error(g.r))
    \* r = requests.get(url, timeout=10.0)
    IN  Got(requests_get(url, net))

\* request.args.get(name, default=d, type=int): d when the argument is
\* absent or is no integer.
int_arg(raw, d) == IF IsStr(raw) /\ IsDigits(raw.v) THEN StrToInt(raw.v) ELSE d

\* request.args.get(name, "false").lower() == "true".
flag_arg(raw) ==
    Lower(IF IsNone(raw) THEN <<"f", "a", "l", "s", "e">> ELSE raw.v)
        = <<"t", "r", "u", "e">>

\* pokemon_list(): GET /api/pokemon.
pokemon_list(db, flt, clock, net, args) ==
    LET \* return jsonify(data) / except Exception as e: ... 500
        Listed(h) ==
            IF h.exc = NoExc THEN Returned(h.payload, 200, h.db, h.gets, h.saves)
            ELSE Returned(PyDict([error |-> PyStr(h.msg)]), 500, h.db, h.gets, h.saves)
    IN  Listed(_http_get_json(db, flt, clock, net,
                              api_url_build(<<"pokemon">>, PyNone, PyNone).v
                              \o <<"?", "limit", "=">> \o IntToStr(int_arg(args.limit, 20))
                              \o <<"&", "offset", "=">> \o IntToStr(int_arg(args.offset, 0))))

\* pokemon(name_or_id): GET /api/pokemon/<name_or_id>.
pokemon(db, flt, clock, net, name_or_id) ==
    LET \* return jsonify(payload), r.status_code
        Logged(g, payload, sv) ==
            IF sv.exc # NoExc THEN Escaped(sv.exc, sv.msg, db, g.n, sv.n)
            ELSE Returned(payload.v, g.r.status_code, sv.v, g.n, sv.n)
        \* _save_api_call(_now_iso(), "pokemon", name_or_id, url, ..., payload)
        Classified(url, g, payload) ==
            IF payload.exc # NoExc THEN Escaped(payload.exc, payload.msg, db, g.n, 0)
            ELSE Logged(g, payload,
                        _save_api_call(db, flt, _now_iso(clock), PyStr(<<"pokemon">>),
                                       PyStr(name_or_id), url, g.r.status_code, payload.v))
        \* try: payload = r.json() / except Exception: payload = {"error": r.text}
        Got(url, g) ==
            IF g.exc # NoExc THEN Escaped(g.exc, g.msg, db, g.n, 0)
            ELSE Classified(url, g, json_or_error(g.r))
        \* r = requests.get(url, timeout=10.0)
        Fetch(url) == Got(url, requests_get(url, net))
    \* url = POKEAPI_BASE + name_or_id.strip().lower()
    IN  Fetch(POKEAPI_BASE \o Lower(Strip(name_or_id)))

\* pokemon_summary(name_or_id): GET /api/pokemon/<name_or_id>/summary.
pokemon_summary(db, flt, clock, net, name_or_id) ==
    LET Save(url, g, payload) ==
            _save_api_call(db, flt, _now_iso(clock), PyStr(<<"pokemon">>),
                           PyStr(name_or_id), url, g.r.status_code, payload)
        \* return jsonify(payload), r.status_code
        Passed(g, payload, sv) ==
            IF sv.exc # NoExc THEN Escaped(sv.exc, sv.msg, db, g.n, sv.n)
            ELSE Returned(payload.v, g.r.status_code, sv.v, g.n, sv.n)
        \* if r.status_code != 200: classify, log
        NotOk(url, g, payload) ==
            IF payload.exc # NoExc THEN Escaped(payload.exc, payload.msg, db, g.n, 0)
            ELSE Passed(g, payload, Save(url, g, payload.v))
        \* return jsonify({"summary": text, "name_or_id": ..., "id": data.get("id")})
        Summarised(g, data, sv) ==
            IF sv.exc # NoExc THEN Escaped(sv.exc, sv.msg, db, g.n, sv.n)
            ELSE Returned(PyDict([summary |-> PyStr(summarize_pokemon(data.v)),
                                  name_or_id |-> PyStr(name_or_id),
                                  id |-> Get(data.v, "id", PyNone)]),
                          200, sv.v, g.n, sv.n)
        \* data = r.json() / text = summarize_pokemon(data) / _save_api_call(...)
        Parsed(url, g, data) ==
            IF data.exc # NoExc THEN Escaped(data.exc, data.msg, db, g.n, 0)
            ELSE IF ~IsDict(data.v)
            THEN Escaped(AttributeError.exc, AttributeError.msg, db, g.n, 0)
            ELSE Summarised(g, data, Save(url, g, data.v))
        Got(url, g) ==
            IF g.exc # NoExc THEN Escaped(g.exc, g.msg, db, g.n, 0)
            ELSE IF g.r.status_code # 200 THEN NotOk(url, g, json_or_error(g.r))
            ELSE Parsed(url, g, r_json(g.r))
        \* r = requests.get(url, timeout=10.0)
        Fetch(url) == Got(url, requests_get(url, net))
    \* url = POKEAPI_BASE + name_or_id.strip().lower()
    IN  Fetch(POKEAPI_BASE \o Lower(Strip(name_or_id)))

SpriteFlags ==
    {"back", "shiny", "female", "model", "other", "official_artwork", "dream_world"}

\* pokemon_sprite(name_or_id): GET /api/pokemon/<name_or_id>/sprite; args
\* holds the raw query argument of every flag, None when absent.
pokemon_sprite(db, flt, clock, net, name_or_id, args) ==
    LET Save(url, g, payload) ==
            _save_api_call(db, flt, _now_iso(clock), PyStr(<<"pokemon">>),
                           PyStr(name_or_id), url, g.r.status_code, payload)
        \* return jsonify({"error": "Pokemon not found"}), 404
        NotFound(g, sv) ==
            IF sv.exc # NoExc THEN Escaped(sv.exc, sv.msg, db, g.n, sv.n)
            ELSE Returned(PyDict([error |-> PyStr(<<"Pokemon not found">>)]), 404,
                          sv.v, g.n, sv.n)
        \* if r.status_code != 200: classify, log
        NotOk(url, g, payload) ==
            IF payload.exc # NoExc THEN Escaped(payload.exc, payload.msg, db, g.n, 0)
            ELSE NotFound(g, Save(url, g, payload.v))
        \* sprite_url = sprite_url_build("pokemon", pokemon_id, **sprite_options)
        Built(g, sv, pokemon_id, sprite_options) ==
            Returned(PyDict([pokemon |-> PyStr(name_or_id), id |-> pokemon_id,
                             sprite_url |-> PyStr(sprite_url_build(<<"pokemon">>, pokemon_id,
                                                                   sprite_options)),
                             options |-> PyDict([f \in SpriteFlags |->
                                                   PyBool(sprite_options[f])])]),
                     200, sv.v, g.n, sv.n)
        \* pokemon_id = data.get("id") / sprite_options = {...}
        Logged(g, data, sv) ==
            IF sv.exc # NoExc THEN Escaped(sv.exc, sv.msg, db, g.n, sv.n)
            ELSE IF ~IsDict(data.v)
            THEN Escaped(AttributeError.exc, AttributeError.msg, sv.v, g.n, sv.n)
            ELSE Built(g, sv, Get(data.v, "id", PyNone),
                       [f \in SpriteFlags |-> flag_arg(args[f])])
        \* data = r.json() / _save_api_call(...)
        Parsed(url, g, data) ==
            IF data.exc # NoExc THEN Escaped(data.exc, data.msg, db, g.n, 0)
            ELSE Logged(g, data, Save(url, g, data.v))
        Got(url, g) ==
            IF g.exc # NoExc THEN Escaped(g.exc, g.msg, db, g.n, 0)
            ELSE IF g.r.status_code # 200 THEN NotOk(url, g, json_or_error(g.r))
            ELSE Parsed(url, g, r_json(g.r))
        \* r = requests.get(url, timeout=10.0)
        Fetch(url) == Got(url, requests_get(url, net))
    \* url = POKEAPI_BASE + name_or_id.strip().lower()
    IN  Fetch(POKEAPI_BASE \o Lower(Strip(name_or_id)))

\* list(set(names)): the distinct names, in the order the interpreter's
\* string hashing gives; hash_order lists every string in that order.
ListOfSet(names, hash_order) ==
    LET Keep(k) == \E j \in 1..Len(names) : names[j] = hash_order[k]
        F[k \in 0..Len(hash_order)] ==
            IF k = 0 THEN <<>>
            ELSE F[k - 1] \o (IF Keep(k) THEN <<hash_order[k]>> ELSE <<>>)
    IN  F[Len(hash_order)]

RECURSIVE MethodNames(_)
\* ed.get("method", {}).get("name", "unknown") for ed in encounter_details.
MethodNames(encounter_details) ==
    IF encounter_details = <<>> THEN Ok(<<>>)
    ELSE LET method == DictGet(Head(encounter_details), "method", EmptyDict)
             name == DictGet(method.v, "name", PyStr(<<"unknown">>))
             rest == MethodNames(Tail(encounter_details))
         IN  IF method.exc # NoExc THEN method
             ELSE IF name.exc # NoExc THEN name
             ELSE IF rest.exc # NoExc THEN rest
             ELSE Ok(<<name.v>> \o rest.v)

RECURSIVE EncounterVersions(_, _)
\* The loop over version_details of pokemon_encounters.
EncounterVersions(version_details, hash_order) ==
    IF version_details = <<>> THEN Ok(<<>>)
    ELSE LET vd == Head(version_details)
             version == DictGet(vd, "version", EmptyDict)
             version_name == DictGet(version.v, "name", PyStr(<<"unknown">>))
             details == Get(vd, "encounter_details", PyList(<<>>))
             names == IF IsList(details) THEN MethodNames(details.v) ELSE TypeError
             rest == EncounterVersions(Tail(version_details), hash_order)
         IN  IF version.exc # NoExc THEN version
             ELSE IF version_name.exc # NoExc THEN version_name
             ELSE IF names.exc # NoExc THEN names
             ELSE IF rest.exc # NoExc THEN rest
             ELSE Ok(<<PyDict([version |-> version_name.v,
                               max_chance |-> Get(vd, "max_chance", PyInt(0)),
                               methods |-> PyList(ListOfSet(names.v, hash_order))])>>
                     \o rest.v)

RECURSIVE EncounterLocations(_, _)
\* The loop over the payload of pokemon_encounters.
EncounterLocations(encounters, hash_order) ==
    IF encounters = <<>> THEN Ok(<<>>)
    ELSE LET encounter == Head(encounters)
             area == DictGet(encounter, "location_area", EmptyDict)
             location_name == DictGet(area.v, "name", PyStr(<<"unknown">>))
             vds == Get(encounter, "version_details", PyList(<<>>))
             versions == IF IsList(vds) THEN EncounterVersions(vds.v, hash_order)
                         ELSE TypeError
             rest == EncounterLocations(Tail(encounters), hash_order)
         IN  IF area.exc # NoExc THEN area
             ELSE IF location_name.exc # NoExc THEN location_name
             ELSE IF versions.exc # NoExc THEN versions
             ELSE IF rest.exc # NoExc THEN rest
             ELSE Ok(<<PyDict([location |-> location_name.v,
                               versions |-> PyList(versions.v)])>> \o rest.v)

\* pokemon_encounters(name_or_id): GET /api/pokemon/<name_or_id>/encounters.
pokemon_encounters(db, flt, clock, net, name_or_id, args, hash_order) ==
    LET Save(url, g, payload) ==
            _save_api_call(db, flt, _now_iso(clock), PyStr(<<"pokemon-encounters">>),
                           PyStr(name_or_id), url, g.r.status_code, payload)
        \* return jsonify(payload), r.status_code
        Logged(g, payload, sv) ==
            IF sv.exc # NoExc THEN Escaped(sv.exc, sv.msg, db, g.n, sv.n)
            ELSE Returned(payload, g.r.status_code, sv.v, g.n, sv.n)
        \* _save_api_call(..., summary) / return jsonify(summary), r.status_code
        Summarised(url, g, summary) == Logged(g, summary, Save(url, g, summary))
        \* summary = {...}; summary["full_url"] = ...
        Grouped(url, g, payload, locations) ==
            IF locations.exc # NoExc
            THEN Escaped(locations.exc, locations.msg, db, g.n, 0)
            ELSE Summarised(url, g,
                     PyDict([pokemon |-> PyStr(name_or_id),
                             total_locations |-> PyInt(Len(payload.v)),
                             locations |-> PyList(locations.v),
                             full_url |-> PyStr(<<"/", "api", "/", "pokemon", "/">>
                                                \o name_or_id
                                                \o <<"/", "encounters", "?", "full", "=",
                                                     "true">>)]))
        \* if r.status_code != 200 or full: log, return
        \* if not isinstance(payload, list): return
        Parsed(url, g, payload) ==
            IF g.r.status_code # 200 \/ flag_arg(args.full)
            THEN Logged(g, payload, Save(url, g, payload))
            ELSE IF ~IsList(payload) THEN Returned(payload, g.r.status_code, db, g.n, 0)
            ELSE Grouped(url, g, payload, EncounterLocations(payload.v, hash_order))
        \* except Exception: payload = {"error": r.text}; log, return
        NotJson(url, g, payload) == Logged(g, payload, Save(url, g, payload))
        \* try: payload = r.json()
        Read(url, g, j) ==
            IF j.exc # NoExc THEN NotJson(url, g, PyDict([error |-> PyStr(g.r.text)]))
            ELSE Parsed(url, g, j.v)
        Got(url, g) ==
            IF g.exc # NoExc THEN Escaped(g.exc, g.msg, db, g.n, 0)
            ELSE Read(url, g, r_json(g.r))
        \* r = requests.get(url, timeout=10.0)
        Fetch(url) == Got(url, requests_get(url, net))
    \* url = f"{POKEAPI_BASE}{name_or_id.strip().lower()}/encounters"
    IN  Fetch(POKEAPI_BASE \o Lower(Strip(name_or_id)) \o <<"/", "encounters">>)

\* A projection that copies the raw flavor text entries as well.
SpeciesFieldsAndEntries ==
    {"id", "name", "order", "gender_rate", "capture_rate", "base_happiness",
     "is_baby", "is_legendary", "is_mythical", "hatch_counter",
     "has_gender_differences", "forms_switchable", "growth_rate", "egg_groups",
     "color", "shape", "evolves_from_species", "evolution_chain", "habitat",
     "generation", "names", "genera", "varieties", "flavor_text_entries"}

\* The fields pokemon_species copies from the upstream payload.
SpeciesFields ==
    {"id", "name", "order", "gender_rate", "capture_rate", "base_happiness",
     "is_baby", "is_legendary", "is_mythical", "hatch_counter",
     "has_gender_differences", "forms_switchable", "growth_rate", "egg_groups",
     "color", "shape", "evolves_from_species", "evolution_chain", "habitat",
     "generation", "names", "genera", "varieties"}

\* pokemon_species(identifier): GET /api/pokemon-species/<identifier>.
pokemon_species(db, flt, clock, net, identifier, args) ==
    LET \* summary = {..., "flavor_text": ..., "full_url": ...} / return
        Summarised(h, flavor) ==
            IF flavor.exc # NoExc
            THEN Escaped(flavor.exc, flavor.msg, h.db, h.gets, h.saves)
            ELSE Returned(PyDict([k \in SpeciesFields |-> Get(h.payload, k, PyNone)]
                                 @@ [flavor_text |-> flavor.v,
                                     full_url |-> PyStr(<<"/", "api", "/",
                                                          "pokemon-species", "/">>
                                                        \o identifier
                                                        \o <<"?", "full", "=", "true">>)]),
                          h.status, h.db, h.gets, h.saves)
        \* if status != 200 or full: return jsonify(payload), status
        Fetched(h) ==
            IF h.exc # NoExc THEN h
            ELSE IF h.status # 200 \/ flag_arg(args.full) THEN h
            ELSE IF ~IsDict(h.payload)
            THEN Escaped(AttributeError.exc, AttributeError.msg, h.db, h.gets, h.saves)
            ELSE Summarised(h, _get_latest_english_flavor_text(
                                   Get(h.payload, "flavor_text_entries", PyList(<<>>))))
    \* payload, status = _proxy_endpoint("pokemon-species", identifier)
    IN  Fetched(_proxy_endpoint(db, flt, clock, net, <<"pokemon-species">>,
                                PyStr(identifier)))

\* evolution_chain_paths(chain_id): GET /api/evolution-chain/<int>/paths.
evolution_chain_paths(db, flt, clock, net, chain_id) ==
    LET \* return jsonify({"paths": paths, "chain_id": chain_id})
        Walked(h, paths) ==
            IF paths.exc # NoExc
            THEN Escaped(paths.exc, paths.msg, h.db, h.gets, h.saves)
            ELSE Returned(PyDict([paths |-> PyList(paths.v),
                                  chain_id |-> PyInt(chain_id)]),
                          200, h.db, h.gets, h.saves)
        \* if not root: return jsonify({"paths": []})
        \* paths = _build_evo_paths(root, [], [])
        Rooted(h, root) ==
            IF root.exc # NoExc
            THEN Escaped(root.exc, root.msg, h.db, h.gets, h.saves)
            ELSE IF ~Truthy(root.v)
            THEN Returned(PyDict([paths |-> PyList(<<>>)]), 200, h.db, h.gets, h.saves)
            ELSE Walked(h, _build_evo_paths(root.v, <<>>, <<>>))
        \* if status != 200: return jsonify(payload), status
        \* root = payload.get("chain")
        Fetched(h) ==
            IF h.exc # NoExc THEN h
            ELSE IF h.status # 200 THEN h
            ELSE Rooted(h, DictGet(h.payload, "chain", PyNone))
    \* payload, status = _proxy_endpoint("evolution-chain", str(chain_id))
    IN  Fetched(_proxy_endpoint(db, flt, clock, net, <<"evolution-chain">>,
                                PyStr(IntToStr(chain_id))))

\* Characters in code-point order, for comparing strings.
Alphabet == <<" ", "-">> \o DigitChars \o UpperChars \o LowerChars

Rank(c) ==
    IF \E k \in 1..Len(Alphabet) : Alphabet[k] = c
    THEN CHOOSE k \in 1..Len(Alphabet) : Alphabet[k] = c
    ELSE 0

RECURSIVE StrLess(_, _)
\* a < b for two strings.
StrLess(a, b) ==
    IF b = <<>> THEN FALSE
    ELSE IF a = <<>> THEN TRUE
    ELSE IF Head(a) = Head(b) THEN StrLess(Tail(a), Tail(b))
    ELSE Rank(Head(a)) < Rank(Head(b))

\* a < b raises TypeError unless both are int or both are str; equal values
\* are never compared with <.
Comparable(a, b) == a = b \/ (IsInt(a) /\ IsInt(b)) \/ (IsStr(a) /\ IsStr(b))

ValLess(a, b) ==
    IF IsInt(a) /\ IsInt(b) THEN a.v < b.v
    ELSE IF IsBool(a) /\ IsBool(b) THEN ~a.v /\ b.v
    ELSE IF IsStr(a) /\ IsStr(b) THEN StrLess(a.v, b.v)
    ELSE FALSE

RECURSIVE KeyLess(_, _)
\* a < b for two key tuples: the first components that differ decide.
KeyLess(a, b) ==
    IF a = <<>> \/ b = <<>> THEN FALSE
    ELSE IF Head(a) = Head(b) THEN KeyLess(Tail(a), Tail(b))
    ELSE ValLess(Head(a), Head(b))

\* list.sort(key=...): a stable sort of q by its keys, key[i] the key tuple
\* of q[i].  Element i goes behind every element with a smaller key, and
\* behind the earlier ones whose key is not greater.
SortBy(q, key) ==
    LET Pos(i) == 1 + Cardinality({ j \in (1..Len(q)) \ {i} :
                        KeyLess(key[j], key[i])
                        \/ (~KeyLess(key[i], key[j]) /\ j < i) })
    IN  [p \in 1..Len(q) |-> q[CHOOSE i \in 1..Len(q) : Pos(i) = p]]

RECURSIVE GenerationResults(_)
\* The loop of generation() over data["results"].
GenerationResults(results) ==
    IF results = <<>> THEN Ok(<<>>)
    ELSE LET r == Head(results)
             url == DictGet(r, "url", PyStr(<<>>))
             name == Get(r, "name", PyNone)
             gen_id == _extract_id_from_url(url.v)
             rest == GenerationResults(Tail(results))
         IN  IF url.exc # NoExc THEN url
             ELSE IF rest.exc # NoExc THEN rest
             ELSE Ok(<<PyDict([id |-> IF Truthy(gen_id) THEN gen_id ELSE name,
                               name |-> name, url |-> url.v])>> \o rest.v)

\* The sort keys of generation(): (not isinstance(g["id"], int), g["id"]).
GenerationKeys(q) == [i \in 1..Len(q) |-> <<PyBool(~IsInt(q[i].v.id)), q[i].v.id>>]

GenerationComparable(q) ==
    \A i, j \in 1..Len(q) :
        IsInt(q[i].v.id) = IsInt(q[j].v.id) => Comparable(q[i].v.id, q[j].v.id)

\* generation(identifier): GET /api/generation and /api/generation/<id>.
generation(db, flt, clock, net, identifier) ==
    IF ~IsNone(identifier)
    THEN _proxy_endpoint(db, flt, clock, net, <<"generation">>, identifier)
    ELSE
    LET \* results.sort(key=...) / return jsonify({"results": results})
        Collected(h, results) ==
            IF results.exc # NoExc
            THEN Escaped(results.exc, results.msg, h.db, h.gets, h.saves)
            ELSE IF ~GenerationComparable(results.v)
            THEN Escaped(TypeError.exc, TypeError.msg, h.db, h.gets, h.saves)
            ELSE Returned(PyDict([results |-> PyList(SortBy(results.v, GenerationKeys(results.v)))]),
                          200, h.db, h.gets, h.saves)
        \* for r in data.get("results", []): ...
        Listed(h, listed) ==
            IF listed.exc # NoExc
            THEN Escaped(listed.exc, listed.msg, h.db, h.gets, h.saves)
            ELSE Collected(h, IF IsList(listed.v) THEN GenerationResults(listed.v.v)
                              ELSE TypeError)
        Fetched(h) ==
            IF h.exc # NoExc THEN h
            ELSE Listed(h, DictGet(h.payload, "results", PyList(<<>>)))
    \* data = _http_get_json(api_url_build("generation") + "?limit=100")
    IN  Fetched(_http_get_json(db, flt, clock, net,
                               api_url_build(<<"generation">>, PyNone, PyNone).v
                               \o <<"?", "limit", "=", "1", "0", "0">>))

RECURSIVE SpeciesResults(_)
\* The loop of generation_species over data["pokemon_species"].
SpeciesResults(species) ==
    IF species = <<>> THEN Ok(<<>>)
    ELSE LET sp == Head(species)
             name == DictGet(sp, "name", PyNone)
             url == Get(sp, "url", PyStr(<<>>))
             sid == _extract_id_from_url(url)
             sprite == IF Truthy(sid)
                       THEN PyStr(sprite_url_build(<<"pokemon">>, sid, [k \in {} |-> FALSE]))
                       ELSE PyStr(<<>>)
             rest == SpeciesResults(Tail(species))
         IN  IF name.exc # NoExc THEN name
             ELSE IF rest.exc # NoExc THEN rest
             ELSE Ok(<<PyDict([id |-> IF Truthy(sid) THEN sid ELSE name.v,
                               name |-> name.v, sprite |-> sprite])>> \o rest.v)

\* The sort keys of generation_species: a["name"].
NameKeys(q) == [i \in 1..Len(q) |-> <<q[i].v.name>>]

NameComparable(q) == \A i, j \in 1..Len(q) : Comparable(q[i].v.name, q[j].v.name)

\* generation_species(gen_id): GET /api/generation/<int>/species.
generation_species(db, flt, clock, net, gen_id) ==
    LET \* out.sort(key=lambda x: x["name"]) / return jsonify({"results": out})
        Collected(h, out) ==
            IF out.exc # NoExc THEN Escaped(out.exc, out.msg, h.db, h.gets, h.saves)
            ELSE IF ~NameComparable(out.v)
            THEN Escaped(TypeError.exc, TypeError.msg, h.db, h.gets, h.saves)
            ELSE Returned(PyDict([results |-> PyList(SortBy(out.v, NameKeys(out.v)))]),
                          200, h.db, h.gets, h.saves)
        \* for sp in data.get("pokemon_species", []): ...
        Listed(h, listed) ==
            IF listed.exc # NoExc
            THEN Escaped(listed.exc, listed.msg, h.db, h.gets, h.saves)
            ELSE Collected(h, IF IsList(listed.v) THEN SpeciesResults(listed.v.v)
                              ELSE TypeError)
        Fetched(h) ==
            IF h.exc # NoExc THEN h
            ELSE Listed(h, DictGet(h.payload, "pokemon_species", PyList(<<>>)))
    \* data = _http_get_json(api_url_build("generation", gen_id))
    IN  Fetched(_http_get_json(db, flt, clock, net,
                               api_url_build(<<"generation">>, PyStr(IntToStr(gen_id)),
                                             PyNone).v))

-----------------------------------------------------------------------------
(* The environment: inbound requests, upstream answers, storage faults.    *)

\* Identifiers a client puts in the path.
Identifiers == { <<"2", "5">>, <<"M", "e", "w", " ">> }

\* Values of an <int:...> path segment.
IntIds == { 10 }

StatusCodes == { 200, 404, 503 }

NonJsonTexts == { <<"Not Found">> }

\* What the upstream can do with one GET, its body among texts.
Nets(texts) ==
    [t : {"response"}, status_code : StatusCodes, text : texts \cup NonJsonTexts]
    \cup [t : {"error"}, exc : {"ConnectionError", "Timeout"}]

\* The body of the resource asked for, or a JSON document of the other shape.
DictNets(text) == Nets({text, <<"[]">>})

ListNets(text) == Nets({text, <<"{pokemon 25}">>})

NoUpstream == [t |-> "none"]

\* What goes wrong inside _save_api_call: nothing, sqlite3.connect raises,
\* json.dumps raises.  The insert itself fails when the table is missing.
Faults == { "none", "connect", "dumps" }

\* An inbound request: the view function, the resource kind and identifier
\* bound by the rule, and the query flags.
Req(route, endpoint, identifier, args) ==
    [route |-> route, endpoint |-> endpoint, identifier |-> identifier, args |-> args]

NoArgs == [none |-> TRUE]

\* Raw values of the query arguments limit and offset: absent, or digits.
Paginations ==
    { [limit |-> PyNone, offset |-> PyNone],
      [limit |-> PyStr(<<"5">>), offset |-> PyStr(<<"1", "0">>)] }

\* What Flask gets from a view: (jsonify(payload), status) or an exception.
FlaskResult(h) ==
    IF h.exc = NoExc
    THEN [t |-> "response", payload |-> h.payload, status |-> h.status]
    ELSE [t |-> "exception", exc |-> h.exc]

\* The log with its table in place.
Working(db) == [db EXCEPT !.exists = TRUE]

\* One request handled: run[FALSE] is what the view does on the log as it is
\* under the storage fault f, run[TRUE] what it does on a log with its table
\* and no fault.
Serve(req, net, f, run) ==
    \E h \in {run[FALSE]} :
    /\ request' = req
    /\ fault' = f
    /\ upstream' = IF h.gets = 0 THEN NoUpstream ELSE net
    /\ response' = FlaskResult(h)
    /\ api_calls' = h.db
    /\ before' = api_calls.rows
    /\ reference' = FlaskResult(run[TRUE])
    /\ gets' = h.gets
    /\ saves' = h.saves
    /\ served' = served + 1
    /\ UNCHANGED <<pkapp_calls, pkapp_hist, call, result>>

-----------------------------------------------------------------------------
(* Routes that return _proxy_endpoint's result as it is.                   *)

\* The routes of app.py of the shape
\*   payload, status = _proxy_endpoint("<kind>", identifier)
\* berry stands for those with a list rule and a lookup rule, berry-firmness
\* for those with a lookup rule only, contest-effect for the <int:...> ones.
TableRequests ==
    { Req("berry", <<"berry">>, i, NoArgs) :
        i \in {PyNone} \cup { PyStr(x) : x \in Identifiers } }
    \cup { Req("berry_firmness", <<"berry-firmness">>, PyStr(x), NoArgs) :
        x \in Identifiers }
    \cup { Req("contest_effect", <<"contest-effect">>, PyStr(IntToStr(n)), NoArgs) :
        n \in IntIds }

TableRoute ==
    \E req \in TableRequests, net \in DictNets(<<"{page}">>), f \in Faults :
        /\ served < MaxRequests
        /\ LET View(db, flt) ==
                   _proxy_endpoint(db, flt, served, net, req.endpoint, req.identifier)
           IN  Serve(req, net, f, [ideal \in BOOLEAN |->
                     View(IF ideal THEN Working(api_calls) ELSE api_calls,
                          IF ideal THEN "none" ELSE f)])

\* Keys of the rules given to create_proxy_blueprint: any string.
RuleKeys == { <<"type">>, <<"digimon">>, <<"pokemon-encounters">> }

\* make_view(endpoint_key, has_identifier) of create_proxy_blueprint with
\* proxy_func = _proxy_endpoint.
BlueprintView ==
    \E key \in RuleKeys, i \in {PyNone, PyStr(<<"2", "5">>)},
       net \in DictNets(<<"{page}">>), f \in Faults :
        /\ served < MaxRequests
        /\ LET View(db, flt) ==
                   _proxy_endpoint(db, flt, served, net, key, i)
           IN  Serve(Req("view", key, i, NoArgs), net, f, [ideal \in BOOLEAN |->
                     View(IF ideal THEN Working(api_calls) ELSE api_calls,
                          IF ideal THEN "none" ELSE f)])

-----------------------------------------------------------------------------
(* The pokemon routes.                                                     *)

PokemonList ==
    \E args \in Paginations, net \in DictNets(<<"{page}">>), f \in Faults :
        /\ served < MaxRequests
        /\ LET View(db, flt) ==
                   pokemon_list(db, flt, served, net, args)
           IN  Serve(Req("pokemon_list", <<"pokemon">>, PyNone, args), net, f, [ideal \in BOOLEAN |->
                     View(IF ideal THEN Working(api_calls) ELSE api_calls,
                          IF ideal THEN "none" ELSE f)])

Pokemon ==
    \E x \in Identifiers, net \in DictNets(<<"{pokemon 25}">>), f \in Faults :
        /\ served < MaxRequests
        /\ LET View(db, flt) ==
                   pokemon(db, flt, served, net, x)
           IN  Serve(Req("pokemon", <<"pokemon">>, PyStr(x), NoArgs), net, f, [ideal \in BOOLEAN |->
                     View(IF ideal THEN Working(api_calls) ELSE api_calls,
                          IF ideal THEN "none" ELSE f)])

PokemonSummary ==
    \E x \in Identifiers, net \in DictNets(<<"{pokemon 25}">>), f \in Faults :
        /\ served < MaxRequests
        /\ LET View(db, flt) ==
                   pokemon_summary(db, flt, served, net, x)
           IN  Serve(Req("pokemon_summary", <<"pokemon">>, PyStr(x), NoArgs), net, f, [ideal \in BOOLEAN |->
                     View(IF ideal THEN Working(api_calls) ELSE api_calls,
                          IF ideal THEN "none" ELSE f)])

True == PyStr(<<"T", "r", "u", "e">>)

\* Query strings of the sprite route: the raw value of every flag.
SpriteQueries ==
    LET Q(set) == [f \in SpriteFlags |-> IF f \in set THEN True ELSE PyNone]
    IN  { Q({}), Q({"shiny"}), Q({"other", "official_artwork"}), Q({"model", "back"}) }

PokemonSprite ==
    \E x \in {<<"2", "5">>}, args \in SpriteQueries, net \in DictNets(<<"{pokemon 25}">>),
       f \in Faults :
        /\ served < MaxRequests
        /\ LET View(db, flt) ==
                   pokemon_sprite(db, flt, served, net, x, args)
           IN  Serve(Req("pokemon_sprite", <<"pokemon">>, PyStr(x), args), net, f, [ideal \in BOOLEAN |->
                     View(IF ideal THEN Working(api_calls) ELSE api_calls,
                          IF ideal THEN "none" ELSE f)])

\* Query strings of the routes with a full flag.
FullQueries == { [full |-> PyNone], [full |-> True] }

\* The orders in which a set of method names can come out of set().
MethodUniverse == { PyStr(<<"walk">>), PyStr(<<"surf">>) }

HashOrders ==
    { q \in [1..Cardinality(MethodUniverse) -> MethodUniverse] :
        \A i, j \in DOMAIN q : q[i] = q[j] => i = j }

PokemonEncounters ==
    \E x \in {<<"M", "e", "w", " ">>}, args \in FullQueries,
       net \in ListNets(<<"[encounters 25]">>), hash_order \in HashOrders, f \in Faults :
        /\ served < MaxRequests
        /\ LET View(db, flt) ==
                   pokemon_encounters(db, flt, served, net, x, args, hash_order)
           IN  Serve(Req("pokemon_encounters", <<"pokemon">>, PyStr(x), args), net, f, [ideal \in BOOLEAN |->
                     View(IF ideal THEN Working(api_calls) ELSE api_calls,
                          IF ideal THEN "none" ELSE f)])

PokemonSpecies ==
    \E x \in {<<"2", "5">>}, args \in FullQueries, net \in DictNets(<<"{species 25}">>),
       f \in Faults :
        /\ served < MaxRequests
        /\ LET View(db, flt) ==
                   pokemon_species(db, flt, served, net, x, args)
           IN  Serve(Req("pokemon_species", <<"pokemon-species">>, PyStr(x), args), net, f, [ideal \in BOOLEAN |->
                     View(IF ideal THEN Working(api_calls) ELSE api_calls,
                          IF ideal THEN "none" ELSE f)])

-----------------------------------------------------------------------------
(* The evolution and generation routes.                                    *)

EvolutionChainPaths ==
    \E n \in IntIds, net \in Nets({<<"{chain 10}">>, <<"{chain 10, nulls}">>, <<"[]">>}),
       f \in Faults :
        /\ served < MaxRequests
        /\ LET View(db, flt) ==
                   evolution_chain_paths(db, flt, served, net, n)
           IN  Serve(Req("evolution_chain_paths", <<"evolution-chain">>, PyInt(n), NoArgs), net, f, [ideal \in BOOLEAN |->
                     View(IF ideal THEN Working(api_calls) ELSE api_calls,
                          IF ideal THEN "none" ELSE f)])

Generation ==
    \E i \in {PyNone, PyStr(<<"1">>)}, net \in Nets({<<"{page}">>, <<"{generation 1}">>, <<"[]">>}),
       f \in Faults :
        /\ served < MaxRequests
        /\ LET View(db, flt) ==
                   generation(db, flt, served, net, i)
           IN  Serve(Req("generation", <<"generation">>, i, NoArgs), net, f, [ideal \in BOOLEAN |->
                     View(IF ideal THEN Working(api_calls) ELSE api_calls,
                          IF ideal THEN "none" ELSE f)])

\* generations_alias(): generation() with no identifier.
GenerationsAlias ==
    \E net \in DictNets(<<"{page}">>), f \in Faults :
        /\ served < MaxRequests
        /\ LET View(db, flt) ==
                   generation(db, flt, served, net, PyNone)
           IN  Serve(Req("generations_alias", <<"generation">>, PyNone, NoArgs), net, f, [ideal \in BOOLEAN |->
                     View(IF ideal THEN Working(api_calls) ELSE api_calls,
                          IF ideal THEN "none" ELSE f)])

GenerationSpecies ==
    \E n \in {1}, net \in DictNets(<<"{generation 1}">>), f \in Faults :
        /\ served < MaxRequests
        /\ LET View(db, flt) ==
                   generation_species(db, flt, served, net, n)
           IN  Serve(Req("generation_species", <<"generation">>, PyInt(n), NoArgs), net, f, [ideal \in BOOLEAN |->
                     View(IF ideal THEN Working(api_calls) ELSE api_calls,
                          IF ideal THEN "none" ELSE f)])

-----------------------------------------------------------------------------

NoRequest == Req("none", <<>>, PyNone, NoArgs)

\* The api_calls table exists when an earlier deployment created it: app.py
\* defines _db_init and never calls it.
\* DB_PATH names a file that outlives the process: at start it holds no
\* table (nothing in app.py calls _db_init), an empty table, or the rows an
\* earlier run left, here the row of one GET /api/pokemon/25.
NoTable == [exists |-> FALSE, rows |-> <<>>]

\* The table as a call of _db_init from outside the application leaves it.
EmptyTable == _db_init(NoTable, "none")

EarlierRun ==
    pokemon(EmptyTable, "none", 0,
            [t |-> "response", status_code |-> 200, text |-> <<"{pokemon 25}">>],
            <<"2", "5">>).db

\* DB_PATH of pkapp.db.logging is the file of app.py's DB_PATH: the table is
\* absent, or there with the columns app.py's _db_init gives it.
AppTable ==
    [exists |-> TRUE, columns |-> AppColumns, indexes |-> {}, rows |-> <<>>]

AbsentTable ==
    [exists |-> FALSE, columns |-> {}, indexes |-> {}, rows |-> <<>>]

\* No helper called on its own, and a call that has not returned yet.
NoCall == [fn |-> "none"]

NotReturned == [t |-> "pending"]

\* No call made on pkapp.db.logging yet.
NoCalls == [calls |-> 0, initialised |-> FALSE, last |-> [op |-> "none"],
            before |-> <<>>]

Init ==
    /\ api_calls \in {NoTable, EmptyTable, EarlierRun}
    /\ fault = "none"
    /\ request = NoRequest
    /\ upstream = NoUpstream
    /\ response = [t |-> "none"]
    /\ gets = 0
    /\ saves = 0
    /\ before = api_calls.rows
    /\ reference = [t |-> "none"]
    /\ served = 0
    /\ pkapp_calls = AbsentTable
    /\ pkapp_hist = NoCalls
    /\ call = NoCall
    /\ result = NotReturned

Next ==
    \/ TableRoute
    \/ BlueprintView
    \/ PokemonList
    \/ Pokemon
    \/ PokemonSummary
    \/ PokemonSprite
    \/ PokemonEncounters
    \/ PokemonSpecies
    \/ EvolutionChainPaths
    \/ Generation
    \/ GenerationsAlias
    \/ GenerationSpecies

Spec == Init /\ [][Next]_vars

-----------------------------------------------------------------------------
(* pkapp.db.logging on its own: db_init and save_api_call called by an     *)
(* application built from the package.                                     *)

Called(op, endpoint, flt) ==
    [calls |-> pkapp_hist.calls + 1,
     initialised |-> pkapp_hist.initialised \/ (op = "db_init" /\ flt = "none"),
     last |-> [op |-> op, endpoint |-> endpoint, fault |-> flt],
     before |-> pkapp_calls.rows]

DbInit ==
    \E flt \in {"none", "connect"} :
        /\ pkapp_hist.calls < MaxCalls
        /\ pkapp_calls' = db_init(pkapp_calls, flt)
        /\ pkapp_hist' = Called("db_init", PyNone, flt)
        /\ UNCHANGED <<app_vars, call, result>>

\* The endpoint kinds a caller hands to save_api_call.
LoggedKinds == {PyStr(<<"pokemon">>), PyStr(<<"berry">>), PyNone}

SaveApiCall ==
    \E endpoint \in LoggedKinds, identifier \in {PyNone, PyStr(<<"2", "5">>)},
       status \in StatusCodes, flt \in Faults :
        /\ pkapp_hist.calls < MaxCalls
        /\ pkapp_calls' =
               save_api_call(pkapp_calls, flt, _now_iso(pkapp_hist.calls), endpoint,
                             identifier, BASE_URL, status, PyDict([ok |-> PyBool(TRUE)]))
        /\ pkapp_hist' = Called("save_api_call", endpoint, flt)
        /\ UNCHANGED <<app_vars, call, result>>

LoggingInit ==
    /\ api_calls = NoTable
    /\ fault = "none"
    /\ request = NoRequest
    /\ upstream = NoUpstream
    /\ response = [t |-> "none"]
    /\ gets = 0
    /\ saves = 0
    /\ before = <<>>
    /\ reference = [t |-> "none"]
    /\ served = 0
    /\ pkapp_calls \in {AbsentTable, AppTable}
    /\ pkapp_hist = NoCalls
    /\ call = NoCall
    /\ result = NotReturned

LoggingNext ==
    \/ DbInit
    \/ SaveApiCall

LoggingSpec == LoggingInit /\ [][LoggingNext]_vars

-----------------------------------------------------------------------------
(* The sprite path builders called on their own: the arguments are drawn   *)
(* first, then the function named is applied to them.                      *)

PokemonFlags ==
    {"model", "other", "official_artwork", "dream_world", "back", "shiny", "female"}

ItemFlags == {"berries", "dream_world", "gen3", "gen5", "underground"}

SpriteIds == {PyInt(1), PyInt(25)}

SpriteCalls ==
    { [fn |-> fn, sprite_type |-> <<"pokemon">>, sprite_id |-> i, kwargs |-> k] :
        fn \in {"parse_sprite_options", "sprite_filepath_build", "sprite_url_build"},
        i \in SpriteIds, k \in [PokemonFlags -> BOOLEAN] }
    \cup
    { [fn |-> fn, sprite_type |-> <<"items">>, sprite_id |-> i, kwargs |-> k] :
        fn \in {"parse_sprite_options", "sprite_filepath_build", "sprite_url_build"},
        i \in SpriteIds, k \in [ItemFlags -> BOOLEAN] }

ParseSpriteOptions ==
    /\ call.fn = "parse_sprite_options"
    /\ result = NotReturned
    /\ result' = Ok(parse_sprite_options(call.sprite_type, call.kwargs))
    /\ UNCHANGED <<app_vars, pkapp_calls, pkapp_hist, call>>

SpriteFilepathBuild ==
    /\ call.fn = "sprite_filepath_build"
    /\ result = NotReturned
    /\ result' = Ok(sprite_filepath_build(call.sprite_type, call.sprite_id, call.kwargs))
    /\ UNCHANGED <<app_vars, pkapp_calls, pkapp_hist, call>>

SpriteUrlBuild ==
    /\ call.fn = "sprite_url_build"
    /\ result = NotReturned
    /\ result' = Ok(sprite_url_build(call.sprite_type, call.sprite_id, call.kwargs))
    /\ UNCHANGED <<app_vars, pkapp_calls, pkapp_hist, call>>

SpriteInit ==
    /\ api_calls = NoTable
    /\ fault = "none"
    /\ request = NoRequest
    /\ upstream = NoUpstream
    /\ response = [t |-> "none"]
    /\ gets = 0
    /\ saves = 0
    /\ before = <<>>
    /\ reference = [t |-> "none"]
    /\ served = 0
    /\ pkapp_calls = AbsentTable
    /\ pkapp_hist = NoCalls
    /\ call \in SpriteCalls
    /\ result = NotReturned

SpriteNext ==
    \/ ParseSpriteOptions
    \/ SpriteFilepathBuild
    \/ SpriteUrlBuild

SpriteSpec == SpriteInit /\ [][SpriteNext]_vars

-----------------------------------------------------------------------------
(* The evolution flattener and the chip derivation called on their own.    *)

\* The evolution_details of a transition: none, one carrying only the keys
\* that are set, one as the upstream writes it (every key, null when unset).
TransitionDetails == { <<>>, <<SparseDetail>>, <<FullDetail>> }

\* The evolves_to lists with up to two evolutions.
EvolvesTo(firsts, seconds) ==
    {<<>>} \cup { <<a>> : a \in firsts } \cup { <<a, b>> : a \in firsts, b \in seconds }

\* The species nodes of a chain, named after their place in the tree: the
\* last stage, the middle stage and the root.
LastStage(digits) ==
    { ChainNode(<<"s">> \o digits, digits, <<>>, d) : d \in TransitionDetails }

MiddleStage(digits) ==
    { ChainNode(<<"s">> \o digits, digits, kids, d) :
        d \in TransitionDetails,
        kids \in EvolvesTo(LastStage(digits \o <<"1">>), LastStage(digits \o <<"2">>)) }

EvoRoots ==
    { ChainNode(<<"s", "1">>, <<"1">>, kids, <<>>) :
        kids \in EvolvesTo(MiddleStage(<<"1", "1">>), MiddleStage(<<"1", "2">>)) }

\* Transition records: each of five keys absent, present and unset as the
\* upstream writes it (null, or "" for the time of day), or set.
TransitionRecords ==
    LET absent == [t |-> "absent"]
        Field(key, x) == IF x = absent THEN <<>> ELSE key :> x
        Named(n) == PyDict([name |-> PyStr(n)])
    IN  { PyDict(Field("min_level", l) @@ Field("item", i) @@ Field("trigger", t)
                 @@ Field("time_of_day", h) @@ Field("known_move", m)) :
            l \in {absent, PyNone, PyInt(16)},
            i \in {absent, PyNone, Named(<<"stone">>)},
            t \in {absent, PyNone, Named(<<"level-up">>), Named(<<"trade">>)},
            h \in {absent, PyStr(<<>>), PyStr(<<"night">>)},
            m \in {absent, PyNone, Named(<<"cut">>)} }

\* The details handed to the chip derivation: ev.get("evolution_details") or [].
ChipCalls ==
    { [fn |-> "_summarize_evolution_conditions_py", details |-> PyList(q)] :
        q \in {<<>>} \cup { <<d>> : d \in TransitionRecords } }

SummarizeEvolutionConditions ==
    /\ call.fn = "_summarize_evolution_conditions_py"
    /\ result = NotReturned
    /\ result' = _summarize_evolution_conditions_py(call.details)
    /\ UNCHANGED <<app_vars, pkapp_calls, pkapp_hist, call>>

BuildEvoPaths ==
    /\ call.fn = "_build_evo_paths"
    /\ result = NotReturned
    /\ result' = _build_evo_paths(call.node, <<>>, <<>>)
    /\ UNCHANGED <<app_vars, pkapp_calls, pkapp_hist, call>>

EvolutionInit ==
    /\ api_calls = NoTable
    /\ fault = "none"
    /\ request = NoRequest
    /\ upstream = NoUpstream
    /\ response = [t |-> "none"]
    /\ gets = 0
    /\ saves = 0
    /\ before = <<>>
    /\ reference = [t |-> "none"]
    /\ served = 0
    /\ pkapp_calls = AbsentTable
    /\ pkapp_hist = NoCalls
    /\ call \in { [fn |-> "_build_evo_paths", node |-> n] : n \in EvoRoots }
               \cup ChipCalls
    /\ result = NotReturned

EvolutionNext ==
    \/ BuildEvoPaths
    \/ SummarizeEvolutionConditions

EvolutionSpec == EvolutionInit /\ [][EvolutionNext]_vars

-----------------------------------------------------------------------------
(* The reshaping loops of the encounter and species summaries called on    *)
(* their own.                                                              *)

\* Upstream encounter records: a location area (or none), one version, the
\* method of each encounter detail.
EncounterRecords ==
    LET Area(a) == IF a = <<>> THEN <<>>
                   ELSE "location_area" :> PyDict([name |-> PyStr(a)])
        Detail(m) == PyDict([method |-> PyDict([name |-> m])])
        walk == PyStr(<<"walk">>)
        surf == PyStr(<<"surf">>)
    IN  { PyDict(Area(a) @@ [version_details |-> PyList(<<
              PyDict([version |-> PyDict([name |-> PyStr(<<"red">>)]),
                      max_chance |-> PyInt(10),
                      encounter_details |->
                          PyList([k \in 1..Len(ms) |-> Detail(ms[k])])]) >>)]) :
            a \in {<<>>, <<"area-1">>, <<"area-2">>},
            ms \in {<<>>, <<walk>>, <<walk, surf, walk>>} }

\* The payloads of /pokemon/<id>/encounters with up to two records.
EncounterCalls ==
    { [fn |-> "pokemon_encounters", payload |-> q, hash_order |-> o] :
        q \in {<<>>} \cup { <<a>> : a \in EncounterRecords }
               \cup { <<a, b>> : a \in EncounterRecords, b \in EncounterRecords },
        o \in HashOrders }

\* Upstream flavor text entries: a language, and a text (or none) with line
\* breaks and form feeds in it.
FlavorEntries ==
    LET Text(x) == IF x = <<>> THEN <<>> ELSE "flavor_text" :> PyStr(x)
    IN  { PyDict(Text(x) @@ [language |-> PyDict([name |-> PyStr(<<l>>)])]) :
            l \in {"en", "fr"},
            x \in {<<>>, <<"I", "t", "\n", "z", "a", "p", "s", ".">>,
                   <<"I", "t", "\f", "n", "a", "p", "s", "\n", ".">>,
                   <<"d", "o", "r", "t">>} }

\* The flavor_text_entries of a species with up to three entries.
FlavorCalls ==
    { [fn |-> "_get_latest_english_flavor_text", entries |-> PyList(q)] :
        q \in {<<>>} \cup { <<a>> : a \in FlavorEntries }
               \cup { <<a, b>> : a \in FlavorEntries, b \in FlavorEntries }
               \cup { <<a, b, c>> : a \in FlavorEntries, b \in FlavorEntries,
                                    c \in FlavorEntries } }

GetLatestEnglishFlavorText ==
    /\ call.fn = "_get_latest_english_flavor_text"
    /\ result = NotReturned
    /\ result' = _get_latest_english_flavor_text(call.entries)
    /\ UNCHANGED <<app_vars, pkapp_calls, pkapp_hist, call>>

\* The summary loop of pokemon_encounters (for encounter in payload: ...).
SummarizeEncounters ==
    /\ call.fn = "pokemon_encounters"
    /\ result = NotReturned
    /\ result' = EncounterLocations(call.payload, call.hash_order)
    /\ UNCHANGED <<app_vars, pkapp_calls, pkapp_hist, call>>

ReshapeInit ==
    /\ api_calls = NoTable
    /\ fault = "none"
    /\ request = NoRequest
    /\ upstream = NoUpstream
    /\ response = [t |-> "none"]
    /\ gets = 0
    /\ saves = 0
    /\ before = <<>>
    /\ reference = [t |-> "none"]
    /\ served = 0
    /\ pkapp_calls = AbsentTable
    /\ pkapp_hist = NoCalls
    /\ call \in EncounterCalls \cup FlavorCalls
    /\ result = NotReturned

ReshapeNext ==
    \/ SummarizeEncounters
    \/ GetLatestEnglishFlavorText

ReshapeSpec == ReshapeInit /\ [][ReshapeNext]_vars

-----------------------------------------------------------------------------
(* create_proxy_blueprint called on its own, the blueprint registered on   *)
(* an application and a request dispatched to one of its views.            *)

\* The rules of a resource kind: the list rule and the lookup rule.
ProxyRules ==
    { <<<<"/">> \o key, key, has_identifier>> :
        key \in { <<"berry">>, <<"item">>, <<"berry", "-", "firmness">> },
        has_identifier \in BOOLEAN }

BlueprintCalls ==
    { [fn |-> "create_proxy_blueprint", name |-> <<"proxy">>, rules |-> q] :
        q \in { <<a>> : a \in ProxyRules }
               \cup { <<p[1], p[2]>> :
                        p \in { x \in ProxyRules \X ProxyRules : x[1] # x[2] } } }

\* A proxy_func: the payload and status it returns for (endpoint_key, identifier).
ProxyFuncs ==
    { [args \in { <<r[2], i>> : r \in ProxyRules, i \in {PyNone, PyStr(<<"2", "5">>)} }
          |-> <<PyDict([kind |-> PyStr(args[1]), identifier |-> args[2]]), status>>] :
        status \in {200, 404} }

CreateProxyBlueprint ==
    /\ call.fn = "create_proxy_blueprint"
    /\ result = NotReturned
    /\ result' = create_proxy_blueprint(call.name, call.rules)
    /\ UNCHANGED <<app_vars, pkapp_calls, pkapp_hist, call>>

RegisterBlueprint ==
    /\ call.fn = "create_proxy_blueprint"
    /\ result # NotReturned
    /\ result.t = "blueprint"
    /\ call' = [call EXCEPT !.fn = "register_blueprint"]
    /\ result' = [t |-> "registered", blueprint |-> result,
                  app |-> register_blueprint(result)]
    /\ UNCHANGED <<app_vars, pkapp_calls, pkapp_hist>>

\* A GET that matches url rule k of the registered blueprint.
DispatchView ==
    \E proxy_func \in ProxyFuncs :
        /\ call.fn = "register_blueprint"
        /\ result.app.exc = NoExc
        /\ \E k \in 1..Len(result.app.v.url_map) :
               LET matched == result.app.v.url_map[k]
                   identifier == IF matched.view_func.has_identifier
                                 THEN PyStr(<<"2", "5">>) ELSE PyNone
               IN  /\ call' = [fn |-> "view", name |-> call.name,
                               rules |-> call.rules, rule |-> call.rules[k],
                               identifier |-> identifier, proxy_func |-> proxy_func]
                   /\ result' = view(matched.view_func, identifier, proxy_func)
        /\ UNCHANGED <<app_vars, pkapp_calls, pkapp_hist>>

BlueprintInit ==
    /\ api_calls = NoTable
    /\ fault = "none"
    /\ request = NoRequest
    /\ upstream = NoUpstream
    /\ response = [t |-> "none"]
    /\ gets = 0
    /\ saves = 0
    /\ before = <<>>
    /\ reference = [t |-> "none"]
    /\ served = 0
    /\ pkapp_calls = AbsentTable
    /\ pkapp_hist = NoCalls
    /\ call \in BlueprintCalls
    /\ result = NotReturned

BlueprintNext ==
    \/ CreateProxyBlueprint
    \/ RegisterBlueprint
    \/ DispatchView

BlueprintSpec == BlueprintInit /\ [][BlueprintNext]_vars

-----------------------------------------------------------------------------
(* Properties of the routes, each about the request handled last.          *)

\* Routes whose view returns the result of _proxy_endpoint as it is.
ProxyRoutes == {"berry", "berry_firmness", "contest_effect", "view"}

\* Routes that hand the upstream resource back unreshaped.
PassThroughRoutes == ProxyRoutes \cup {"pokemon_list", "pokemon"}

\* Routes that reshape the upstream resource.
DerivedRoutes ==
    {"pokemon_summary", "pokemon_sprite", "pokemon_encounters", "pokemon_species",
     "evolution_chain_paths", "generation_species"}

\* The upstream answered the GET of this request with an HTTP response.
Completed == gets > 0 /\ upstream.t = "response"

\* The GET of this request failed below HTTP.
TransportFailed == gets > 0 /\ upstream.t = "error"

\* The (payload, status) a view returned.
Result(payload, status) == [t |-> "response", payload |-> payload, status |-> status]

\* C1: a kind outside ENDPOINTS, with any identifier or none, gets status 400
\* with the payload {error: "Unknown API endpoint '<kind>'"} from
\* _proxy_endpoint, and no GET is sent.
C1_UnknownKindIs400WithoutGet ==
    (request.route \in ProxyRoutes /\ request.endpoint \notin ENDPOINTS)
        => /\ response = Result(PyDict([error |-> PyStr(<<"Unknown API endpoint '">>
                                                         \o request.endpoint \o <<"'">>)]),
                                400)
           /\ gets = 0
           /\ upstream = NoUpstream

C1_Witness ==
    /\ request.route = "view"
    /\ request.endpoint = <<"digimon">>
    /\ request.identifier = PyStr(<<"2", "5">>)
    /\ response.t = "response"
    /\ response.status = 400

\* C2: for a kind of ENDPOINTS, when the upstream answers with a JSON body,
\* _proxy_endpoint returns the upstream status, 2xx or not, and the value of
\* that body.
C2_JsonBodyAndStatusPassThrough ==
    (/\ request.route \in ProxyRoutes
     /\ request.endpoint \in ENDPOINTS
     /\ Completed
     /\ upstream.text \in JsonTexts)
        => response = Result(JsonOf(upstream.text), upstream.status_code)

C2_Witness ==
    /\ request.route = "berry"
    /\ Completed
    /\ upstream.text = <<"{page}">>
    /\ upstream.status_code = 404
    /\ response.t = "response"
    /\ response.payload = PageBody

\* C3: when the upstream answers _proxy_endpoint with a body that is not
\* JSON, the result is {error: <the body text>} with the upstream status, and
\* no exception leaves _proxy_endpoint.
C3_NonJsonBodyIsWrapped ==
    (/\ request.route \in ProxyRoutes
     /\ Completed
     /\ upstream.text \notin JsonTexts)
        => response = Result(PyDict([error |-> PyStr(upstream.text)]),
                             upstream.status_code)

C3_Witness ==
    /\ request.route \in ProxyRoutes
    /\ Completed
    /\ upstream.text = <<"Not Found">>
    /\ upstream.status_code = 200
    /\ response.t = "response"
    /\ response.payload = PyDict([error |-> PyStr(<<"Not Found">>)])

\* C4: when the GET of _proxy_endpoint fails at transport level, the result
\* is status 500 with {error: <message>} and the log gets no record.
C4_TransportFailureIs500Unlogged ==
    (request.route \in ProxyRoutes /\ TransportFailed)
        => /\ response = Result(PyDict([error |-> PyStr(TransportMessage(upstream.exc))]),
                                500)
           /\ saves = 0
           /\ api_calls.rows = before

C4_Witness ==
    /\ request.route \in ProxyRoutes
    /\ TransportFailed
    /\ upstream.exc = "Timeout"
    /\ response.t = "response"
    /\ response.status = 500
    /\ api_calls.exists
    /\ before # <<>>

\* C5: whatever the upstream does, every route handler returns a payload with
\* a status code; no exception leaves a handler.
C5_NoExceptionLeavesAHandler ==
    served > 0 => response.t = "response"

\* C6: the (payload, status) of a request whose log write fails, at connect,
\* at serialising the payload or at the insert, is the one the same request
\* gets when the store works.
C6_LoggingFailureKeepsResponse ==
    served > 0 => response = reference

C6_Witness ==
    /\ saves > 0
    /\ fault = "connect"
    /\ api_calls.rows = before
    /\ response.t = "response"
    /\ response = reference

\* C7: on a pass-through route, /api/pokemon and /api/pokemon/<name_or_id>
\* included, the status of the response is the upstream status, 2xx or not.
C7_PassThroughMirrorsStatus ==
    (request.route \in PassThroughRoutes /\ Completed)
        => response.t = "response" /\ response.status = upstream.status_code

\* C8: a derived route returns 200 when the reshape succeeds, and the
\* upstream status unchanged when the upstream answers with another status.
C8_DerivedStatus ==
    (request.route \in DerivedRoutes /\ Completed)
        => IF upstream.status_code = 200
           THEN response.t = "response" => response.status = 200
           ELSE response.t = "response" /\ response.status = upstream.status_code

\* C9: a request sends at most one GET, on every route and whatever the
\* upstream does: no fan-out, no second GET after a failure.
C9_AtMostOneGet ==
    gets <= 1

C9_Witness ==
    /\ TransportFailed
    /\ gets = 1
    /\ request.route = "pokemon_encounters"

\* C10: with a working store, a request whose upstream call completed leaves
\* exactly one more record in the log, and the records that were there stay
\* as they were.
C10_OneRecordPerCompletedCall ==
    /\ Len(api_calls.rows) >= Len(before)
    /\ SubSeq(api_calls.rows, 1, Len(before)) = before
    /\ (Completed /\ api_calls.exists /\ fault # "connect")
           => Len(api_calls.rows) = Len(before) + 1

-----------------------------------------------------------------------------
(* The table of the call log.                                              *)

\* C11: the table of the call log has been created before the first insert
\* is attempted, so the first completed upstream call of a fresh deployment
\* is persisted.
C11_TableCreatedBeforeFirstInsert ==
    (served > 0 /\ saves > 0 /\ fault = "none")
        => /\ api_calls.exists
           /\ Len(api_calls.rows) = Len(before) + 1

\* C12: once db_init has run, save_api_call persists one record when the
\* endpoint kind is "pokemon" and nothing for another kind, and the table
\* has the endpoint column that the insert and the endpoint index name.
C12_PokemonCallsPersistedAfterInit ==
    (pkapp_hist.initialised /\ pkapp_hist.last.op = "save_api_call"
                            /\ pkapp_hist.last.fault = "none")
        => /\ "endpoint" \in pkapp_calls.columns
           /\ Len(pkapp_calls.rows) =
                  Len(pkapp_hist.before)
                  + (IF pkapp_hist.last.endpoint = PyStr(<<"pokemon">>) THEN 1 ELSE 0)

-----------------------------------------------------------------------------
(* The sprite path builders.                                               *)

\* The call named fn has returned.
Done(fn) == call.fn = fn /\ result # NotReturned

\* The flags of seq that are set in the call, in the order of seq, each as
\* the segment it stands for.
Chosen(seq) ==
    LET Set(flag) == call.kwargs[flag]
        Segment(flag) ==
            CASE flag = "official_artwork" -> "official-artwork"
              [] flag = "dream_world" -> "dream-world"
              [] OTHER -> flag
        picked == SelectSeq(seq, Set)
    IN  [i \in 1..Len(picked) |-> <<Segment(picked[i])>>]

\* category/segments.../<id>.png
SpritePath(segments) ==
    Join(<<call.sprite_type>> \o segments
         \o <<IntToStr(call.sprite_id.v) \o <<".", "png">> >>, <<"/">>)

\* C13: for category "pokemon" the segments follow the ladder: model alone;
\* else other with official-artwork and dream-world and none of
\* back/shiny/female; else those of back, shiny, female that are set, in
\* that order.  The path is category/segments/<id>.png.
C13_PokemonSpriteLadder ==
    LET k == call.kwargs
        segments ==
            IF k["model"] THEN << <<"model">> >>
            ELSE IF k["other"]
            THEN << <<"other">> >> \o Chosen(<<"official_artwork", "dream_world">>)
            ELSE Chosen(<<"back", "shiny", "female">>)
    IN  /\ (Done("parse_sprite_options") /\ call.sprite_type = <<"pokemon">>)
            => result.v = segments
        /\ (Done("sprite_filepath_build") /\ call.sprite_type = <<"pokemon">>)
            => result.v = SpritePath(segments)
        /\ (Done("sprite_filepath_build") /\ call.sprite_type = <<"pokemon">>
                /\ call.sprite_id = PyInt(25)
                /\ {f \in PokemonFlags : k[f]} = {"shiny"})
            => result.v = <<"pokemon", "/", "shiny", "/", "2", "5", ".", "png">>
        /\ (Done("sprite_filepath_build") /\ call.sprite_type = <<"pokemon">>
                /\ call.sprite_id = PyInt(25)
                /\ {f \in PokemonFlags : k[f]} = {"other", "official_artwork"})
            => result.v = <<"pokemon", "/", "other", "/", "official-artwork", "/",
                            "2", "5", ".", "png">>

C13_Witness ==
    /\ Done("sprite_filepath_build")
    /\ call.sprite_type = <<"pokemon">>
    /\ {f \in PokemonFlags : call.kwargs[f]} = {"other", "official_artwork", "shiny"}
    /\ result.v = <<"pokemon", "/", "other", "/", "official-artwork", "/",
                     "2", "5", ".", "png">>

\* C14: for category "items" at most one segment is resolved: that of the
\* first flag set among berries, dream_world, gen3, gen5, underground, and
\* none when no flag is set.
C14_ItemSpriteFirstMatch ==
    LET set == Chosen(<<"berries", "dream_world", "gen3", "gen5", "underground">>)
        segments == IF set = <<>> THEN <<>> ELSE <<set[1]>>
    IN  /\ (Done("parse_sprite_options") /\ call.sprite_type = <<"items">>)
            => Len(result.v) <= 1 /\ result.v = segments
        /\ (Done("sprite_filepath_build") /\ call.sprite_type = <<"items">>)
            => result.v = SpritePath(segments)
        /\ (Done("sprite_filepath_build") /\ call.sprite_type = <<"items">>
                /\ call.sprite_id = PyInt(1)
                /\ {f \in ItemFlags : call.kwargs[f]} = {"gen3"})
            => result.v = <<"items", "/", "gen3", "/", "1", ".", "png">>

C14_Witness ==
    /\ Done("sprite_filepath_build")
    /\ call.sprite_type = <<"items">>
    /\ {f \in ItemFlags : call.kwargs[f]} = {"dream_world", "gen5", "underground"}
    /\ result.v = <<"items", "/", "dream-world", "/", "1", ".", "png">>

-----------------------------------------------------------------------------
(* The evolution flattener.                                                *)

\* The evolutions of a node of the chain handed to the flattener.
Evolutions(node) == node.v.evolves_to.v

\* A species node as a step shows it: its name and the id its url ends in.
NameAndId(node) ==
    [name |-> node.v.species.v.name, id |-> _extract_id_from_url(node.v.species.v.url)]

RECURSIVE RootToLeaf(_)
\* The root-to-leaf sequences of species nodes below node, leftmost leaf
\* first.
RootToLeaf(node) ==
    LET kids == Evolutions(node)
        Below(i) == RootToLeaf(kids[i])
        Under(i) == [p \in 1..Len(Below(i)) |-> <<node>> \o Below(i)[p]]
    IN  IF kids = <<>> THEN << <<node>> >>
        ELSE IF Len(kids) = 1 THEN Under(1)
        ELSE Under(1) \o Under(2)

\* The steps of a returned path, each by its name and id.
StepsOf(path) ==
    [i \in 1..Len(path.v.steps.v) |->
        [name |-> path.v.steps.v[i].v.name, id |-> path.v.steps.v[i].v.id]]

\* C15: _build_evo_paths(root, [], []) returns one path per leaf of the
\* tree, the steps of each being the species from the root to that leaf, so
\* each begins with the root; a single node gives one path of one step, one
\* branch point with two evolutions gives two paths.
C15_OnePathPerLeaf ==
    Done("_build_evo_paths")
        => /\ result.exc = NoExc
           /\ Len(result.v) = Len(RootToLeaf(call.node))
           /\ \A i \in 1..Len(result.v) :
                  StepsOf(result.v[i]) =
                      [k \in 1..Len(RootToLeaf(call.node)[i]) |->
                          NameAndId(RootToLeaf(call.node)[i][k])]
           /\ \A i \in 1..Len(result.v) : StepsOf(result.v[i])[1] = NameAndId(call.node)

\* C16: every path returned has one link fewer than steps, link i being the
\* chips of the transition from step i to step i+1; a linear chain of three
\* stages gives one path of 3 steps and 2 links.
C16_OneLinkPerTransition ==
    LET root == call.node
        Linear3 == /\ Len(Evolutions(root)) = 1
                   /\ Len(Evolutions(Evolutions(root)[1])) = 1
    IN  Done("_build_evo_paths")
            => /\ result.exc = NoExc
                   => \A i \in 1..Len(result.v) :
                          /\ Len(result.v[i].v.links.v) = Len(result.v[i].v.steps.v) - 1
                          /\ \A k \in 1..Len(result.v[i].v.links.v) :
                                 result.v[i].v.links.v[k].v.conditions.v =
                                     _summarize_evolution_conditions_py(
                                         RootToLeaf(root)[i][k + 1].v.evolution_details).v
               /\ Linear3
                   => /\ result.exc = NoExc
                      /\ Len(result.v) = 1
                      /\ Len(result.v[1].v.steps.v) = 3
                      /\ Len(result.v[1].v.links.v) = 2

-----------------------------------------------------------------------------
(* The species route.                                                      *)

\* C17: /api/pokemon-species/<id> with upstream status 200.  Without
\* full=true the response has the projected fields, flavor_text and
\* full_url and no others, so never flavor_text_entries; with full=true it
\* is the upstream payload, field for field.
C17_SpeciesSummaryOrFull ==
    (request.route = "pokemon_species" /\ Completed /\ upstream.status_code = 200
         /\ upstream.text \in JsonTexts)
        => IF flag_arg(request.args.full)
           THEN response = Result(JsonOf(upstream.text), 200)
           ELSE /\ IsDict(JsonOf(upstream.text)) => response.t = "response"
                /\ response.t = "response"
                    => /\ response.status = 200
                       /\ "flavor_text_entries" \notin DOMAIN response.payload.v
                       /\ DOMAIN response.payload.v \subseteq
                              {"id", "name", "order", "gender_rate", "capture_rate",
                               "base_happiness", "is_baby", "is_legendary",
                               "is_mythical", "hatch_counter", "has_gender_differences",
                               "forms_switchable", "growth_rate", "egg_groups", "color",
                               "shape", "evolves_from_species", "evolution_chain",
                               "habitat", "generation", "names", "genera", "varieties",
                               "flavor_text", "full_url"}

C17_Witness ==
    /\ request.route = "pokemon_species"
    /\ ~flag_arg(request.args.full)
    /\ Completed
    /\ upstream.status_code = 200
    /\ upstream.text = <<"{species 25}">>
    /\ "flavor_text_entries" \in DOMAIN JsonOf(upstream.text).v
    /\ response.t = "response"
    /\ response.payload.v.capture_rate = PyInt(190)
    /\ "flavor_text" \in DOMAIN response.payload.v

-----------------------------------------------------------------------------
(* The URL of the outbound GET, as the record of the call shows it.        *)

\* The request left a record: the last row of the log.
Recorded == Len(api_calls.rows) = Len(before) + 1

LastRecord == api_calls.rows[Len(api_calls.rows)]

\* Routes of the shape /api/<kind>/<identifier>.
LookupRoutes == PassThroughRoutes \cup {"generation", "pokemon_species"}

\* C18: the URL built for /api/<kind>/<identifier> carries the identifier
\* lower-cased and stripped of surrounding whitespace, for every kind.
C18_IdentifierLoweredAndTrimmed ==
    (request.route \in LookupRoutes /\ IsStr(request.identifier) /\ Recorded)
        => LET lookup == Join(<<BASE_URL, request.endpoint,
                                Lower(Strip(request.identifier.v))>>, <<"/">>)
           IN  LastRecord.url \in {lookup, lookup \o <<"/">>}

\* Routes of the shape /api/<kind>, the identifier absent.
ListRoutes == ProxyRoutes \cup {"pokemon_list", "generation", "generations_alias"}

\* The raw value of a query argument, or its default when it is absent.
ArgOr(name, default) ==
    IF name \in DOMAIN request.args /\ ~IsNone(request.args[name])
    THEN request.args[name].v ELSE default

\* C19: a list route takes limit and offset from the query, 20 and 0 when
\* absent, and hands their values on in the query string of the GET.
C19_ListRoutesPassPagination ==
    (request.route \in ListRoutes /\ IsNone(request.identifier) /\ Recorded)
        => LastRecord.url =
               Join(<<BASE_URL, request.endpoint>>, <<"/">>)
               \o <<"?", "limit", "=">> \o ArgOr("limit", <<"2", "0">>)
               \o <<"&", "offset", "=">> \o ArgOr("offset", <<"0">>)

-----------------------------------------------------------------------------
(* The chip derivation.                                                    *)

\* The condition fields the chip derivation knows, the trigger apart: those
\* that count when they are not null, and those that count when they are
\* set to something (a name, a time of day, a flag that is true).
NumberFields ==
    {"min_level", "min_happiness", "min_beauty", "min_affection",
     "relative_physical_stats"}

ValueFields ==
    {"item", "held_item", "time_of_day", "known_move", "known_move_type", "location",
     "needs_overworld_rain", "party_species", "party_type", "trade_species",
     "turn_upside_down"}

\* The transition the chips are derived from carries no condition.
NoCondition ==
    \/ call.details.v = <<>>
    \/ LET d == call.details.v[1].v
       IN  /\ \A k \in NumberFields \cap DOMAIN d : IsNone(d[k])
           /\ \A k \in ValueFields \cap DOMAIN d : ~Truthy(d[k])

\* The name of the trigger of that transition, None when it has none.
TriggerName ==
    IF call.details.v = <<>> THEN PyNone
    ELSE LET d == call.details.v[1].v
         IN  IF "trigger" \in DOMAIN d /\ IsDict(d["trigger"])
             THEN d["trigger"].v.name ELSE PyNone

\* C20: for a transition with no recognised condition field, an empty
\* evolution_details included, the chip derivation returns one chip: the
\* trigger name when there is one, the literal "evolves" otherwise.
C20_FallbackChip ==
    (Done("_summarize_evolution_conditions_py") /\ NoCondition)
        => result = Ok(<<IF IsNone(TriggerName) THEN PyStr(<<"evolves">>)
                         ELSE TriggerName>>)

\* C23: the chip derivation is total: for every transition record, the
\* optional object fields present with null or absent, it returns a
\* non-empty list of chips and does not raise.
C23_ChipDerivationTotal ==
    Done("_summarize_evolution_conditions_py")
        => /\ result.exc = NoExc
           /\ result.v # <<>>

-----------------------------------------------------------------------------
(* The encounter summary.                                                  *)

\* The location name of an upstream encounter record.
LocationOf(record) ==
    IF "location_area" \in DOMAIN record.v THEN record.v.location_area.v.name
    ELSE PyStr(<<"unknown">>)

\* The method names the upstream records of one location name carry.
MethodsAt(location) ==
    { d.v.method.v.name :
        d \in UNION { { r.v.version_details.v[1].v.encounter_details.v[k] :
                          k \in 1..Len(r.v.version_details.v[1].v.encounter_details.v) } :
                      r \in { call.payload[i] : i \in 1..Len(call.payload) }
                           \cap { x \in EncounterRecords : LocationOf(x) = location } } }

\* C21: the encounter summary has one entry per location name, also when
\* several upstream records carry the same name, and the methods of each
\* version entry are the method names of that version, each once.
C21_EncountersGroupedByLocation ==
    Done("pokemon_encounters")
        => /\ result.exc = NoExc
           /\ \A i, j \in 1..Len(result.v) :
                  result.v[i].v.location = result.v[j].v.location => i = j
           /\ \A i \in 1..Len(result.v) :
                  \A v \in 1..Len(result.v[i].v.versions.v) :
                      LET methods == result.v[i].v.versions.v[v].v.methods.v
                      IN  /\ \A a, b \in 1..Len(methods) : methods[a] = methods[b] => a = b
                          /\ { methods[a] : a \in 1..Len(methods) }
                                 = MethodsAt(result.v[i].v.location)

-----------------------------------------------------------------------------
(* The flavor text of the species summary.                                 *)

\* The places of the English entries among the entries handed in.
EnglishAt ==
    { i \in 1..Len(call.entries.v) :
        call.entries.v[i].v.language.v.name = PyStr(<<"en">>) }

\* The text of an entry, empty when it has none, with a space in place of
\* every line break and form feed.
Spaced(entry) ==
    LET text == IF "flavor_text" \in DOMAIN entry.v THEN entry.v.flavor_text.v
                ELSE <<>>
    IN  [k \in 1..Len(text) |-> IF text[k] \in {"\n", "\f"} THEN " " ELSE text[k]]

\* C22: the derived flavor_text is the text of the last entry, in upstream
\* order, whose language is "en", every line break and form feed replaced
\* by one space; it is empty when no entry is English.
C22_LatestEnglishFlavorText ==
    Done("_get_latest_english_flavor_text")
        => result =
               Ok(PyStr(IF EnglishAt = {} THEN <<>>
                        ELSE Spaced(call.entries.v[
                                 CHOOSE i \in EnglishAt : \A j \in EnglishAt : j <= i])))

C22_Witness ==
    /\ Done("_get_latest_english_flavor_text")
    /\ Len(call.entries.v) = 3
    /\ EnglishAt = {1, 2}
    /\ "flavor_text" \in DOMAIN call.entries.v[1].v
    /\ call.entries.v[1] # call.entries.v[2]
    /\ result = Ok(PyStr(<<"I", "t", " ", "n", "a", "p", "s", " ", ".">>))

-----------------------------------------------------------------------------
(* What the records of the log say about the call.                         *)

\* C24: the record of a call carries the allow-listed resource kind of the
\* upstream call, with no query string attached, and the identifier that was
\* requested, null for a list call; also when _http_get_json derives both
\* from the URL.
C24_RecordNamesKindAndIdentifier ==
    Recorded
        => /\ LastRecord.endpoint = PyStr(request.endpoint)
           /\ \A k \in 1..Len(LastRecord.endpoint.v) :
                  LastRecord.endpoint.v[k] \in EndpointNames
           /\ IF IsNone(request.identifier) THEN IsNone(LastRecord.identifier)
              ELSE LastRecord.identifier \in
                       { PyStr(Format(request.identifier)),
                         PyStr(Lower(Strip(Format(request.identifier)))) }

-----------------------------------------------------------------------------
(* The blueprint factory.                                                  *)

\* C25: create_proxy_blueprint registers one route per rule, each under its
\* own endpoint name, also when two rules share an endpoint_key; the view
\* of a rule calls proxy_func once with (endpoint_key, identifier),
\* identifier null for a rule without identifier, and returns its payload
\* and status unchanged.
C25_OneRoutePerRule ==
    /\ (call.fn = "create_proxy_blueprint" /\ result # NotReturned)
           => /\ Len(result.url_rules) = Len(call.rules)
              /\ \A i, j \in 1..Len(result.url_rules) :
                     result.url_rules[i].endpoint = result.url_rules[j].endpoint => i = j
    /\ call.fn = "register_blueprint"
           => /\ result.app.exc = NoExc
              /\ Len(result.app.v.url_map) = Len(call.rules)
    /\ call.fn = "view"
           => /\ result.proxy_calls =
                     << <<call.rule[2], IF call.rule[3] THEN call.identifier ELSE PyNone>> >>
              /\ result.payload = call.proxy_func[result.proxy_calls[1]][1]
              /\ result.status = call.proxy_func[result.proxy_calls[1]][2]

====
